---- MODULE Spec2Model ----
(***************************************************************************)
(* Deployment orchestration, subdomain routing and webhook dispatch of    *)
(* the gitclawlab control plane.                                          *)
(*                                                                         *)
(* Strings of the program are kept as strings where the code only passes  *)
(* them around, and as sequences of words and dots where the code looks   *)
(* inside them (host names).  A multi-line log text is the sequence of    *)
(* its lines: join('\n') of a list is the list itself.                    *)
(***************************************************************************)
EXTENDS Integers, Sequences, FiniteSets, TLC

\* ------------------------------------------------------------------ bounds
MaxDeployments == 2
MaxInflight == 1
MaxTime == 1
MaxWebhooks == 1
MaxDeliveries == 1
MaxLabels == 4
MaxSubscriptions == 3
MaxWindows == 1
MaxNameLen == 3
MaxPolls == 3

\* ------------------------------------------------------------- vocabulary
NULL == "null"

\* repositories are managed by a collaborator; the core only reads them
Repositories ==
  { [id |-> "r1", name |-> "app1", owner_agent_id |-> "a1"],
    [id |-> "r2", name |-> "app2", owner_agent_id |-> "a1"] }

Agents == {"a1", "a2"}
RepoNames == {"app1", "app2", "ghost"}
CommitShas == {NULL, "c1"}
Revisions == {"rev-fly", "rev-target-fly", "rev-bare"}
BodyTargets == {NULL, "fly", "heroku"}

\* the null result of a repository query
NoRepo == [id |-> NULL, name |-> NULL, owner_agent_id |-> NULL]

\* db/schema.ts getRepository: a repository whose id or name is the argument
getRepository(idOrName) ==
  LET hits == {r \in Repositories : r.id = idOrName \/ r.name = idOrName}
  IN  IF hits = {} THEN NoRepo ELSE CHOOSE r \in hits : TRUE

\* api/middleware/auth.ts hasRepoAccess (db/schema.ts checkRepoAccess) for
\* private repositories and an empty repo_access table: every permission
\* belongs to the owner
hasRepoAccess(agentId, repoId, requiredPermission) ==
  \E repo \in Repositories :
    /\ repo.id = repoId
    /\ agentId # NULL
    /\ repo.owner_agent_id = agentId

\* ---------------------------------------------------------- deploy engine
\* deploy/types.ts MoltlabConfig: the fields of the manifest the engine reads
Manifest(name, provider, target, customDomain, subdomain) ==
  [name |-> name, provider |-> provider, target |-> target,
   customDomain |-> customDomain, subdomain |-> subdomain]

\* the result of parseConfig: found = FALSE stands for the null result
NoConfig == [found |-> FALSE, m |-> Manifest(NULL, NULL, NULL, NULL, NULL)]
Config(m) == [found |-> TRUE, m |-> m]

\* one conventional manifest file name in the source root
AbsentFile == [state |-> "absent", m |-> Manifest(NULL, NULL, NULL, NULL, NULL)]
BadFile == [state |-> "bad", m |-> Manifest(NULL, NULL, NULL, NULL, NULL)]
GoodFile(m) == [state |-> "ok", m |-> m]

\* deploy/types.ts parseConfig: the first of the conventional file names
\* that exists and parses wins; a parse error is logged and the next name
\* is tried
RECURSIVE parseConfigFrom(_, _)
parseConfigFrom(files, i) ==
  IF i > Len(files) THEN NoConfig
  ELSE IF files[i].state = "ok" THEN Config(files[i].m)
  ELSE parseConfigFrom(files, i + 1)

parseConfig(files) == parseConfigFrom(files, 1)

\* a detection that asks fly first
detectProviderFlyFirst(w) ==
  IF w.fly.installed /\ w.fly.authenticated THEN "fly"
  ELSE IF w.railway.installed /\ w.railway.authenticated THEN "railway"
  ELSE NULL

\* deploy/types.ts detectProvider: railway first, then fly
detectProvider(w) ==
  IF w.railway.installed /\ w.railway.authenticated THEN "railway"
  ELSE IF w.fly.installed /\ w.fly.authenticated THEN "fly"
  ELSE NULL

\* what a provider adapter gives back (DeployResult), threw = TRUE when the
\* adapter's promise rejects instead
AdapterResult(threw, success, url, customDomain, error, logs) ==
  [threw |-> threw, success |-> success, url |-> url,
   customDomain |-> customDomain, error |-> error, logs |-> logs]

\* providers/railway.ts deployToRailway and providers/fly.ts deployToFly, as
\* far as the engine sees them: the adapter checks its own tooling, then
\* provisions and deploys; the remote steps succeed or fail as the world
\* decides.  deployToRailway turns every failure into a result; deployToFly
\* writes fly.toml into the source tree outside any try (ensureFlyToml), so
\* in a world whose adapter field is "throw" (the tree cannot be written to)
\* its promise rejects, while railway goes through.  Only railway attaches a
\* custom domain, and fly derives its URL from the app name.
Adapter(provider, o, w) ==
  LET st == IF provider = "railway" THEN w.railway ELSE w.fly
      domainToAdd == IF o.customDomain # NULL THEN o.customDomain ELSE "generated-subdomain"
  IN  IF ~st.installed
        THEN AdapterResult(FALSE, FALSE, NULL, NULL, "CLI not installed",
                           <<"Starting adapter", "ERROR: CLI not installed">>)
      ELSE IF ~st.authenticated
        THEN AdapterResult(FALSE, FALSE, NULL, NULL, "CLI not authenticated",
                           <<"Starting adapter", "ERROR: CLI not authenticated">>)
      ELSE IF provider = "fly" /\ w.adapter = "throw"
        THEN AdapterResult(TRUE, FALSE, NULL, NULL, "adapter raised", <<>>)
      ELSE IF w.adapter = "fail"
        THEN AdapterResult(FALSE, FALSE, NULL, NULL, "deploy invocation failed",
                           <<"Starting adapter", "ERROR: Deployment failed">>)
      ELSE IF provider = "fly"
        THEN AdapterResult(FALSE, TRUE, "https://app.fly.dev", NULL, NULL,
                           <<"Starting adapter", "Deployed successfully">>)
      ELSE AdapterResult(FALSE, TRUE, w.url,
                         IF w.domainOK THEN domainToAdd ELSE NULL, NULL,
                         <<"Starting adapter",
                           IF w.url # NULL THEN "Deployed successfully"
                                           ELSE "Deployment initiated (Railway URL pending)">>)

\* what deploy() gives back (DeployEngineResult), together with what it did
\* on the way: the adapters it called, whether it built a local image and
\* whether it tried to remove it; threw = TRUE when deploy() rejects
EngineResult(threw, success, url, customDomain, error, logs, provider, calls, built, removed) ==
  [threw |-> threw, success |-> success, url |-> url, customDomain |-> customDomain,
   error |-> error, logs |-> logs, provider |-> provider,
   adapterCalls |-> calls, built |-> built, removed |-> removed]

\* the notification line deploy() logs when notifyDeployment/notifyBuildError raise
NotifyLog(w) == IF w.notifyThrows THEN <<"Notification failed">> ELSE <<>>

\* a notification whose failure leaves deploy()
notifyEscalates(w) == [raised |-> w.notifyThrows, logs |-> <<>>]

\* deploy/types.ts deploy, try { await notifyDeployment(...) } catch and the
\* same around notifyBuildError: a failure is pushed to the logs
notify(w) == [raised |-> FALSE, logs |-> NotifyLog(w)]

\* a builder whose exit code is not looked at
buildImageIgnoringExit(w) ==
  [success |-> TRUE, logs |-> <<"Building image", "Successfully built">>]

\* unnamed/part_012 (docker) buildImage: docker build exits with 0 or not; a failure
\* is returned, never raised
buildImage(w) ==
  [success |-> w.buildOK,
   logs |-> IF w.buildOK THEN <<"Building image", "Successfully built">>
                         ELSE <<"Building image", "ERROR: Build failed">>]

\* deploy/types.ts deploy
deploy(o, w) ==
  LET logs0 == <<"Starting deployment", "Repository">>
      config == parseConfig(w.files)
      logs1 == IF config.found THEN Append(logs0, "Found moltlab.yaml") ELSE logs0
      configTarget == IF config.m.provider # NULL THEN config.m.provider ELSE config.m.target
      chosen == IF o.provider # NULL THEN o.provider
                ELSE IF configTarget # NULL
                  THEN (IF configTarget = "fly" THEN "fly" ELSE "railway")
                ELSE NULL
      detected == detectProvider(w)
      provider == IF chosen # NULL THEN chosen ELSE detected
      logs2 == IF chosen # NULL THEN logs1
               ELSE logs1 \o <<"No provider specified, auto-detecting...", "Auto-detected provider">>
      logs3 == logs2 \o <<"App name", "Dockerfile present">>
      logs4 == IF w.hasDocker THEN Append(logs3, "Docker installed, running") ELSE logs3
      canBuild == w.hasDocker /\ w.docker.installed /\ w.docker.running
      logs5 == IF ~w.hasDocker
                 THEN Append(logs4, "No Dockerfile found; Railway will fall back to Nixpacks build.")
               ELSE IF ~canBuild
                 THEN Append(logs4, "Skipping local Docker build")
               ELSE logs4 \o buildImage(w).logs
      built == canBuild /\ buildImage(w).success
      customDomain == IF o.customDomain # NULL THEN o.customDomain
                      ELSE IF config.m.customDomain # NULL THEN config.m.customDomain
                      ELSE config.m.subdomain
      deployOptions == [provider |-> provider, customDomain |-> customDomain]
      result == Adapter(provider, deployOptions, w)
      logs6 == Append(logs5, IF provider = "railway" THEN "Deploying to Railway..."
                                                     ELSE "Deploying to Fly.io...")
      logs7 == logs6 \o result.logs
      logs8 == IF result.success
                 THEN logs7 \o <<"Deployment completed successfully">>
                      \o (IF result.url # NULL THEN <<"Deployed URL">> ELSE <<>>)
                      \o (IF result.customDomain # NULL THEN <<"Custom Domain">> ELSE <<>>)
                      \o notify(w).logs
               ELSE Append(logs7, "Deployment failed") \o notify(w).logs
  IN  IF ~w.pathExists
        THEN EngineResult(FALSE, FALSE, NULL, NULL, "Repository path not found",
                          Append(logs0, "ERROR: Repository path not found"),
                          IF o.provider # NULL THEN o.provider ELSE "fly", <<>>, FALSE, FALSE)
      ELSE IF provider = NULL
        THEN EngineResult(FALSE, FALSE, NULL, NULL, "No deployment provider available",
                          logs1 \o <<"No provider specified, auto-detecting...",
                                     "ERROR: No deployment provider available">>,
                          "fly", <<>>, FALSE, FALSE)
      ELSE IF canBuild /\ ~built
        THEN IF notify(w).raised
               THEN EngineResult(TRUE, FALSE, NULL, NULL, "notification raised", <<>>,
                                 provider, <<>>, FALSE, FALSE)
             ELSE EngineResult(FALSE, FALSE, NULL, NULL, "Docker build failed",
                               Append(logs5, "Deployment failed before deploy") \o notify(w).logs,
                               provider, <<>>, FALSE, FALSE)
      ELSE IF provider \notin {"railway", "fly"}
        THEN EngineResult(FALSE, FALSE, NULL, NULL, "Unknown provider",
                          Append(logs5, "ERROR: Unknown provider"),
                          provider, <<>>, built, FALSE)
      ELSE IF result.threw
        THEN EngineResult(TRUE, FALSE, NULL, NULL, result.error, <<>>,
                          provider, <<provider>>, built, FALSE)
      ELSE IF notify(w).raised
        THEN EngineResult(TRUE, FALSE, NULL, NULL, "notification raised", <<>>,
                          provider, <<provider>>, built, FALSE)
      ELSE EngineResult(FALSE, result.success, result.url, result.customDomain,
                        result.error, logs8, provider, <<provider>>, built, built)

\* ----------------------------------------------------- the engine's world
\* what the engine finds when it runs: the source tree, the local builder,
\* the provider tooling and the fate of the remote steps
World(pathExists, files, hasDocker, docker, buildOK, railway, fly, adapter, url, domainOK, notifyThrows) ==
  [pathExists |-> pathExists, files |-> files, hasDocker |-> hasDocker,
   docker |-> docker, buildOK |-> buildOK, railway |-> railway, fly |-> fly,
   adapter |-> adapter, url |-> url, domainOK |-> domainOK,
   notifyThrows |-> notifyThrows]

DockerUp == [installed |-> TRUE, running |-> TRUE]
DockerStopped == [installed |-> TRUE, running |-> FALSE]
DockerMissing == [installed |-> FALSE, running |-> FALSE]
CliReady == [installed |-> TRUE, authenticated |-> TRUE]
CliLoggedOut == [installed |-> TRUE, authenticated |-> FALSE]
CliMissing == [installed |-> FALSE, authenticated |-> FALSE]

FlyManifest == Manifest("My App", "fly", NULL, NULL, NULL)
TargetFlyManifest == Manifest("My App", NULL, "fly", NULL, "my-app")

NoFiles == <<AbsentFile, AbsentFile, AbsentFile, AbsentFile>>
FilesOf(m) == <<GoodFile(m), AbsentFile, AbsentFile, AbsentFile>>

\* the worlds the pipelines of the control plane run in, one for each way a
\* run of the engine can end
PathMissing ==
  World(FALSE, NoFiles, FALSE, DockerMissing, FALSE, CliReady, CliReady, "ok", NULL, FALSE, FALSE)
BuildFails ==
  World(TRUE, NoFiles, TRUE, DockerUp, FALSE, CliReady, CliReady, "ok", "https://u1", TRUE, FALSE)
BuiltAndDeployed ==
  World(TRUE, FilesOf(FlyManifest), TRUE, DockerUp, TRUE, CliReady, CliReady, "ok", "https://u1", TRUE, FALSE)
DeployedNoUrl ==
  World(TRUE, <<BadFile, GoodFile(FlyManifest), AbsentFile, AbsentFile>>, TRUE, DockerStopped,
        FALSE, CliReady, CliReady, "ok", NULL, FALSE, TRUE)
AdapterFails ==
  World(TRUE, NoFiles, FALSE, DockerMissing, FALSE, CliReady, CliLoggedOut, "fail", NULL, FALSE, FALSE)
AdapterRaises ==
  World(TRUE, NoFiles, FALSE, DockerMissing, FALSE, CliReady, CliReady, "throw", NULL, FALSE, FALSE)

LifecycleWorlds == {BuildFails, BuiltAndDeployed, DeployedNoUrl, AdapterRaises}

\* the worlds of the upload handler and of the post-receive hook
UploadWorlds == {PathMissing, BuildFails, BuiltAndDeployed, DeployedNoUrl, AdapterFails, AdapterRaises}

\* the manifest at moltlab.yaml of a pushed revision; found = FALSE when the
\* revision has none
ManifestOf(revision) ==
  CASE revision = "rev-fly" -> Config(FlyManifest)
    [] revision = "rev-target-fly" -> Config(TargetFlyManifest)
    [] OTHER -> NoConfig

\* the world of a run started by the post-receive hook: the checked-out tree
\* holds the manifest of the pushed revision
HookWorld(w, revision) == [w EXCEPT !.pathExists = TRUE, !.files = FilesOf(ManifestOf(revision).m)]

\* ------------------------------------------------------------------ state
VARIABLES
  deployments,  \* the deployments table, in insertion order; the id is the index
  tasks,        \* per deployment: the pipeline that works on it, where it stands
                \* and what its call of the engine saw and did
  inflight,     \* cancel and retry requests between their read and their write
  now,          \* the clock behind new Date()
  webhooks,     \* the webhooks table, in insertion order
  deliveries,   \* outbound webhook requests made so far
  dispatch,     \* the last call of deliverWebhooks and how it ended
  routed,       \* what the routing layer did with the last request it saw
  rateLimitStore, \* per client key: the request count and the end of its window
  served,       \* per client key: the requests each limiter let through since
                \* the clock last moved on by more than a window
  answered,     \* the last request the limiters saw and what they did with it
  engine,       \* a call of deploy(): its options, the world it runs in, its result
  proxied,      \* the last app request a routing layer forwarded, and its answer
  named,        \* a call of sanitizeAppName: its argument and its result
  pendingLogins, \* per connection id: the login waiting to be polled, if any
  awaiting,     \* per connection id: the login the last auth webhook stored and
                \* whether a poll has taken it since
  polled,       \* the last login-status poll and its answer
  hooked,       \* the last Nango webhook request and its answer
  deploymentUrlCache, \* per app name: the cached URL and when it expires
  cacheOrigin,  \* per app name: the URL the last lookup stored and when
  resolution,   \* the last call of getDeploymentUrl and its answer
  poller        \* a call of pollRailwayDeployment: where it stands, what it has
                \* seen and done, and its result

lifecycleVars == <<deployments, tasks, inflight>>
webhookVars == <<webhooks, deliveries, dispatch>>
routerVars == <<routed>>
limiterVars == <<rateLimitStore, served, answered>>
engineVars == <<engine>>
proxyVars == <<proxied>>
nameVars == <<named>>
authVars == <<pendingLogins, awaiting, polled, hooked>>
cacheVars == <<deploymentUrlCache, cacheOrigin, resolution>>
pollVars == <<poller>>
serverVars == <<limiterVars, engineVars, proxyVars, nameVars, authVars, cacheVars, pollVars>>

NoTime == -1
NoLogs == <<>>

\* db/schema.ts createDeployment: the row it inserts
NewDeployment(repoId, commitSha, target, deployedBy, t) ==
  [repo_id |-> repoId, commit_sha |-> commitSha, target |-> target,
   status |-> "pending", url |-> NULL, subdomain |-> NULL, logs |-> NoLogs,
   started_at |-> t, completed_at |-> NoTime, deployed_by |-> deployedBy]

createDeployment(deps, repoId, commitSha, target, deployedBy, t) ==
  Append(deps, NewDeployment(repoId, commitSha, target, deployedBy, t))

\* db/schema.ts updateDeployment: sets exactly the columns named in updates
updateDeployment(deps, id, updates) ==
  [deps EXCEPT ![id] =
     [f \in DOMAIN deps[id] |-> IF f \in DOMAIN updates THEN updates[f] ELSE deps[id][f]]]

\* db/schema.ts PLAN_LIMITS.free.maxDeploymentsPerMonth; every agent of the
\* model is on the free plan
maxDeploymentsPerMonth == 10

\* db/schema.ts countMonthlyDeployments: the model's clock stays within one month
countMonthlyDeployments(deps, agentId) ==
  Cardinality({i \in 1..Len(deps) : deps[i].deployed_by = agentId /\ deps[i].started_at >= 0})

\* db/schema.ts canDeploy
canDeploy(deps, agentId) ==
  maxDeploymentsPerMonth - countMonthlyDeployments(deps, agentId) > 0

\* the records an agent one short of its monthly limit already has
Seeded == maxDeploymentsPerMonth - 1

\* the model follows MaxDeployments records beyond those the table starts
\* with
Capacity(deps) ==
  IF Len(deps) >= Seeded THEN Seeded + MaxDeployments ELSE MaxDeployments

\* what a call of the engine saw and did, kept with the task that made it
NoRun == [ran |-> FALSE, manifestProvider |-> NULL, buildFailed |-> FALSE,
          threw |-> FALSE, success |-> FALSE, provider |-> NULL, adapterCalls |-> <<>>]

Run(w, r) ==
  [ran |-> TRUE,
   manifestProvider |-> IF w.pathExists THEN parseConfig(w.files).m.provider ELSE NULL,
   buildFailed |-> w.pathExists /\ w.hasDocker /\ w.docker.installed
                   /\ w.docker.running /\ ~w.buildOK,
   threw |-> r.threw, success |-> r.success,
   provider |-> r.provider, adapterCalls |-> r.adapterCalls]

\* a deployment nobody works on (created by a retry), and the pipelines
NoTask == [kind |-> "none", pc |-> "none", explicit |-> FALSE, run |-> NoRun]
Task(kind, pc, explicit) == [kind |-> kind, pc |-> pc, explicit |-> explicit, run |-> NoRun]

\* no request routed yet
NoRequest == [layer |-> "none", host |-> <<>>, decision |-> "none", name |-> <<>>]

\* clawrunner api/nango-auth.ts: the keys of pendingLogins
ConnectionIds == {"conn-1", "conn-2"}

\* pendingLogins.get(connectionId) === undefined
NoLogin == [userId |-> NULL, githubUsername |-> NULL, createdAt |-> NoTime]

\* no auth webhook has stored a login for the connection yet
NothingStored == [login |-> NoLogin, taken |-> FALSE]

\* no poll yet, no webhook request yet
NoPoll ==
  [connectionId |-> NULL, ready |-> FALSE, user |-> [id |-> NULL, githubUsername |-> NULL],
   awaited |-> NoLogin, taken |-> FALSE, at |-> NoTime]
NoHook ==
  [connectionId |-> NULL, headers |-> [signature |-> NULL, hmac |-> NULL], status |-> 0]

\* sanitizeAppName not called
NoName == [called |-> FALSE, name |-> <<>>, source |-> NULL, appName |-> <<>>]

\* no app request forwarded yet
NoProxy ==
  [layer |-> "none", app |-> NULL, method |-> NULL, url |-> NULL, failure |-> NULL,
   upstream |-> 0, resolved |-> FALSE, raised |-> FALSE, status |-> 0, escaped |-> FALSE]

\* deploy() not called: no options, no world, no result
NoCall ==
  [called |-> FALSE,
   o |-> [provider |-> NULL, customDomain |-> NULL],
   w |-> PathMissing,
   result |-> EngineResult(FALSE, FALSE, NULL, NULL, NULL, <<>>, NULL, <<>>, FALSE, FALSE)]

\* api/server.ts: 60 * 1000, the window both limiters are created with
minute == 60 * 1000

\* api/server.ts CACHE_TTL
CACHE_TTL == 5 * minute

\* deploymentUrlCache.get(appName) === undefined
NoEntry == [url |-> NULL, expires |-> NoTime]

\* no lookup has stored a URL for the app yet
NoOrigin == [url |-> NULL, at |-> NoTime]

\* getDeploymentUrl not called yet
NoResolution ==
  [appName |-> NULL, url |-> NULL, fromCache |-> FALSE, cached |-> NoEntry,
   authoritative |-> {}, at |-> NoTime]

\* pollRailwayDeployment not called yet
NoPolling ==
  [pc |-> "idle", maxWaitMs |-> 0, startTime |-> NoTime, lastStatus |-> "",
   deploymentId |-> "", requestedAt |-> NoTime, fetched |-> FALSE,
   result |-> [success |-> FALSE, status |-> NULL, url |-> NULL, buildLogs |-> NULL]]

\* api/server.ts rateLimiter: the keys of rateLimitStore (req.ip)
ClientKeys == {"203.0.113.7"}

\* rateLimitStore.get(key) === undefined
NoRecord == [count |-> 0, resetTime |-> NoTime]

\* nothing let through yet, by either limiter
NoneServed == [general |-> 0, registration |-> 0]

\* no request seen yet
NoAnswer == [key |-> NULL, path |-> <<>>, status |-> 0, by |-> NULL,
             general |-> 0, registration |-> 0]

\* no call of deliverWebhooks yet
NoDispatch ==
  [called |-> FALSE, repoId |-> NULL, eventType |-> NULL, query |-> NULL,
   payload |-> NULL, fetches |-> <<>>, attempted |-> {}, returned |-> FALSE]

Init ==
  /\ deployments = <<>>
  /\ tasks = <<>>
  /\ inflight = {}
  /\ now = 0
  /\ webhooks = <<>>
  /\ deliveries = {}
  /\ dispatch = NoDispatch
  /\ routed = NoRequest
  /\ rateLimitStore = [key \in ClientKeys |-> NoRecord]
  /\ served = [key \in ClientKeys |-> NoneServed]
  /\ answered = NoAnswer
  /\ engine = NoCall
  /\ proxied = NoProxy
  /\ named = NoName
  /\ pendingLogins = [id \in ConnectionIds |-> NoLogin]
  /\ awaiting = [id \in ConnectionIds |-> NothingStored]
  /\ polled = NoPoll
  /\ hooked = NoHook
  /\ deploymentUrlCache = [appName \in RepoNames |-> NoEntry]
  /\ cacheOrigin = [appName \in RepoNames |-> NoOrigin]
  /\ resolution = NoResolution
  /\ poller = NoPolling

\* --------------------------------------------------- deployment pipelines
validTargets == {"railway", "fly", "coolify"}

\* api/routes/webhooks.ts POST /repos/:name/deploy: the status it answers with
TriggerCode(deps, name, agentId, bodyTarget) ==
  LET target == IF bodyTarget = NULL THEN "railway" ELSE bodyTarget
      repo == getRepository(name)
  IN  IF target \notin validTargets THEN 400
      ELSE IF repo.id = NULL THEN 404
      ELSE IF ~hasRepoAccess(agentId, repo.id, "write") THEN 403
      ELSE IF ~canDeploy(deps, agentId) THEN 429
      ELSE 201

\* api/routes/webhooks.ts POST /repos/:name/deploy, up to the 201 response;
\* the detached task it starts is TaskBuilding and TriggerFinish
Trigger(name, agentId, bodyTarget, commit_sha) ==
  LET target == IF bodyTarget = NULL THEN "railway" ELSE bodyTarget
      repo == getRepository(name)
      sha == IF commit_sha = NULL THEN "HEAD" ELSE commit_sha
      code == TriggerCode(deployments, name, agentId, bodyTarget)
  IN  /\ code = 201 => Len(deployments) < Capacity(deployments)
      /\ IF code = 201
           THEN /\ deployments' = createDeployment(deployments, repo.id, sha, target, agentId, now)
                /\ tasks' = Append(tasks, Task("trigger", "created", bodyTarget # NULL))
           ELSE UNCHANGED <<deployments, tasks>>
      /\ UNCHANGED <<inflight, now, webhookVars, routerVars, serverVars>>

\* unnamed/part_014 (repository routes) POST /:name/upload with deploy=true, from the plan
\* check to the inserted record; the rest of the handler is TaskBuilding and
\* UploadFinish
Upload(name, agentId, queryTarget) ==
  LET repo == getRepository(name)
      deployTarget == IF queryTarget \in {"railway", "fly"} THEN queryTarget ELSE "railway"
      allowed == /\ repo.id # NULL
                 /\ hasRepoAccess(agentId, repo.id, "write")
                 /\ canDeploy(deployments, agentId)
  IN  /\ allowed => Len(deployments) < Capacity(deployments)
      /\ IF allowed
           THEN /\ deployments' = createDeployment(deployments, repo.id, "uploaded", deployTarget, agentId, now)
                /\ tasks' = Append(tasks, Task("upload", "created", queryTarget # NULL))
           ELSE UNCHANGED <<deployments, tasks>>
      /\ UNCHANGED <<inflight, now, webhookVars, routerVars, serverVars>>

\* the first write of the trigger's background task and of the upload
\* handler: updateDeployment(id, { status: 'building' })
TaskBuilding(d) ==
  /\ d \in 1..Len(deployments)
  /\ tasks[d].kind \in {"trigger", "upload"}
  /\ tasks[d].pc = "created"
  /\ deployments' = updateDeployment(deployments, d, [status |-> "building"])
  /\ tasks' = [tasks EXCEPT ![d].pc = "building"]
  /\ UNCHANGED <<inflight, now, webhookVars, routerVars, serverVars>>

\* the options the three callers hand to deploy(): each passes the record's
\* target as the provider
EngineOptions(dep) == [provider |-> dep.target, customDomain |-> NULL]

\* the write of a pipeline whose engine call raised
ErrorUpdate(lines, t) == [status |-> "failed", logs |-> lines, completed_at |-> t]

\* api/routes/webhooks.ts, the write of the background task after deploy()
TriggerUpdate(r, t) ==
  IF r.threw THEN ErrorUpdate(<<"Deployment error">>, t)
  ELSE [status |-> IF r.success THEN "success" ELSE "failed",
        url |-> r.url, subdomain |-> r.customDomain,
        logs |-> r.logs, completed_at |-> t]

\* api/routes/webhooks.ts, the rest of the background task: the engine call
\* and the write of its outcome
TriggerFinish(d, w) ==
  /\ d \in 1..Len(deployments)
  /\ tasks[d].kind = "trigger"
  /\ tasks[d].pc = "building"
  /\ LET r == deploy(EngineOptions(deployments[d]), w)
     IN  /\ deployments' = updateDeployment(deployments, d, TriggerUpdate(r, now))
         /\ tasks' = [tasks EXCEPT ![d].pc = "done", ![d].run = Run(w, r)]
  /\ UNCHANGED <<inflight, now, webhookVars, routerVars, serverVars>>

\* unnamed/part_014 (repository routes) POST /:name/upload, the write after deploy().  The
\* success write passes deployResult.url and deployResult.customDomain as
\* they are: when one of them is undefined the SQLite driver refuses the
\* bind (the handler's catch then writes failed) and the PostgreSQL driver
\* stores null.
UploadUpdate(r, bindRefused, t) ==
  IF r.threw \/ (r.success /\ bindRefused /\ (r.url = NULL \/ r.customDomain = NULL))
    THEN ErrorUpdate(<<"Deployment error">>, t)
  ELSE IF r.success
    THEN [status |-> "success", url |-> r.url, subdomain |-> r.customDomain,
          logs |-> r.logs, completed_at |-> t]
  ELSE [status |-> "failed", logs |-> r.logs \o <<"", "Error">>, completed_at |-> t]

\* unnamed/part_014 (repository routes) POST /:name/upload, the engine call and the write of
\* its outcome
UploadFinish(d, w, bindRefused) ==
  /\ d \in 1..Len(deployments)
  /\ tasks[d].kind = "upload"
  /\ tasks[d].pc = "building"
  /\ LET r == deploy(EngineOptions(deployments[d]), w)
     IN  /\ deployments' = updateDeployment(deployments, d, UploadUpdate(r, bindRefused, now))
         /\ tasks' = [tasks EXCEPT ![d].pc = "done", ![d].run = Run(w, r)]
  /\ UNCHANGED <<inflight, now, webhookVars, routerVars, serverVars>>

\* unnamed/part_015 (git hooks) handlePostReceive: the provider it derives from the manifest
HookTarget(config) ==
  LET targetRaw == IF config.m.target # NULL THEN config.m.target ELSE "railway"
  IN  IF targetRaw = "fly" THEN "fly" ELSE "railway"

\* unnamed/part_015 (git hooks) handlePostReceive for one pushed branch head, up to the
\* inserted record: a revision without moltlab.yaml and a push to an unknown
\* repository deploy nothing
HookPush(repoName, revision) ==
  LET config == ManifestOf(revision)
      repo == getRepository(repoName)
      queued == config.found /\ repo.id # NULL
  IN  /\ queued => Len(deployments) < Capacity(deployments)
      /\ IF queued
           THEN /\ deployments' = createDeployment(deployments, repo.id, revision,
                                                   HookTarget(config), "git-hook", now)
                /\ tasks' = Append(tasks, Task("hook", "created", FALSE))
           ELSE UNCHANGED <<deployments, tasks>>
      /\ UNCHANGED <<inflight, now, webhookVars, routerVars, serverVars>>

\* unnamed/part_015 (git hooks) handlePostReceive: materializeRevision, then the write of
\* 'building'; when the checkout raises, the outer catch only logs and
\* notifies, and the hook goes on to the next update
HookMaterialize(d, checkedOut) ==
  /\ d \in 1..Len(deployments)
  /\ tasks[d].kind = "hook"
  /\ tasks[d].pc = "created"
  /\ IF checkedOut
       THEN /\ deployments' = updateDeployment(deployments, d, [status |-> "building"])
            /\ tasks' = [tasks EXCEPT ![d].pc = "building"]
       ELSE /\ tasks' = [tasks EXCEPT ![d].pc = "abandoned"]
            /\ UNCHANGED deployments
  /\ UNCHANGED <<inflight, now, webhookVars, routerVars, serverVars>>

\* unnamed/part_015 (git hooks) handlePostReceive: the write of 'deploying'
HookDeploying(d) ==
  /\ d \in 1..Len(deployments)
  /\ tasks[d].kind = "hook"
  /\ tasks[d].pc = "building"
  /\ deployments' = updateDeployment(deployments, d, [status |-> "deploying"])
  /\ tasks' = [tasks EXCEPT ![d].pc = "deploying"]
  /\ UNCHANGED <<inflight, now, webhookVars, routerVars, serverVars>>

\* unnamed/part_015 (git hooks) handlePostReceive, the write after deploy()
HookUpdate(r, t) ==
  IF r.threw THEN ErrorUpdate(<<"adapter raised", "">>, t)
  ELSE [status |-> IF r.success THEN "success" ELSE "failed",
        url |-> r.url, logs |-> r.logs, completed_at |-> t]

\* unnamed/part_015 (git hooks) handlePostReceive: the engine call and the write of its outcome
HookFinish(d, w0) ==
  /\ d \in 1..Len(deployments)
  /\ tasks[d].kind = "hook"
  /\ tasks[d].pc = "deploying"
  /\ LET w == HookWorld(w0, deployments[d].commit_sha)
         r == deploy(EngineOptions(deployments[d]), w)
     IN  /\ deployments' = updateDeployment(deployments, d, HookUpdate(r, now))
         /\ tasks' = [tasks EXCEPT ![d].pc = "done", ![d].run = Run(w, r)]
  /\ UNCHANGED <<inflight, now, webhookVars, routerVars, serverVars>>

\* ------------------------------------------------------- cancel and retry
Request(op, id, agentId, row) ==
  [op |-> op, id |-> id, agentId |-> agentId, deployment |-> row]

\* POST /deployments/:id/cancel and /retry, the first await: getDeployment.
\* An unknown id is answered 404; otherwise the handler works on the row it
\* has read while hasRepoAccess is awaited.
ReadDeployment(op, id, agentId) ==
  /\ id \in 1..Len(deployments)
  /\ Cardinality(inflight) < MaxInflight
  /\ inflight' = inflight \cup {Request(op, id, agentId, deployments[id])}
  /\ UNCHANGED <<deployments, tasks, now, webhookVars, routerVars, serverVars>>

\* the text cancel stores: (deployment.logs || '') + '\n[CANCELLED] ...'
CancelledLogs(logs) ==
  (IF logs = NoLogs THEN <<"">> ELSE logs) \o <<"[CANCELLED] Deployment cancelled by user">>

\* a cancel handler without its status guard
CancelCodeNoStatusGuard(req) ==
  IF ~hasRepoAccess(req.agentId, req.deployment.repo_id, "write") THEN 403 ELSE 200

\* api/routes/webhooks.ts POST /deployments/:id/cancel: the status it answers with
CancelCode(req) ==
  IF ~hasRepoAccess(req.agentId, req.deployment.repo_id, "write") THEN 403
  ELSE IF req.deployment.status \notin {"pending", "building", "deploying"} THEN 400
  ELSE 200

\* api/routes/webhooks.ts POST /deployments/:id/cancel, after the read
Cancel(req) ==
  /\ req \in inflight
  /\ req.op = "cancel"
  /\ inflight' = inflight \ {req}
  /\ IF CancelCode(req) = 200
       THEN deployments' = updateDeployment(deployments, req.id,
              [status |-> "failed", logs |-> CancelledLogs(req.deployment.logs),
               completed_at |-> now])
       ELSE UNCHANGED deployments
  /\ UNCHANGED <<tasks, now, webhookVars, routerVars, serverVars>>

\* api/routes/webhooks.ts POST /deployments/:id/retry: the status it answers with
RetryCode(req) ==
  IF ~hasRepoAccess(req.agentId, req.deployment.repo_id, "write") THEN 403
  ELSE IF req.deployment.status # "failed" THEN 400
  ELSE 201

\* a retry that puts the failed record itself back to pending
RetryRequeuesOriginal(req) ==
  /\ req \in inflight
  /\ req.op = "retry"
  /\ inflight' = inflight \ {req}
  /\ IF RetryCode(req) = 201
       THEN deployments' = updateDeployment(deployments, req.id,
              [status |-> "pending", completed_at |-> NoTime])
       ELSE UNCHANGED deployments
  /\ UNCHANGED <<tasks, now, webhookVars, routerVars, serverVars>>

\* api/routes/webhooks.ts POST /deployments/:id/retry, after the read: the new
\* record is inserted and returned, and no pipeline is started for it
Retry(req) ==
  /\ req \in inflight
  /\ req.op = "retry"
  /\ RetryCode(req) = 201 => Len(deployments) < Capacity(deployments)
  /\ inflight' = inflight \ {req}
  /\ IF RetryCode(req) = 201
       THEN /\ deployments' = createDeployment(deployments, req.deployment.repo_id,
                                req.deployment.commit_sha, req.deployment.target,
                                req.agentId, now)
            /\ tasks' = Append(tasks, NoTask)
       ELSE UNCHANGED <<deployments, tasks>>
  /\ UNCHANGED <<now, webhookVars, routerVars, serverVars>>

\* the statuses a PATCH body may carry; NULL stands for a body without status
PatchStatuses == {NULL, "pending", "building", "deploying", "success", "failed"}

\* api/routes/webhooks.ts PATCH /deployments/:id: the status it answers with
PatchCode(id, agentId) ==
  IF id \notin 1..Len(deployments) THEN 404
  ELSE IF ~hasRepoAccess(agentId, deployments[id].repo_id, "admin") THEN 403
  ELSE 200

\* api/routes/webhooks.ts PATCH /deployments/:id: the fields the body
\* defines are written as they come; logs = NoLogs stands for a body
\* without logs
PatchDeployment(id, agentId, status, logs) ==
  LET fields == (IF status # NULL THEN {"status"} ELSE {})
                \cup (IF logs # NoLogs THEN {"logs"} ELSE {})
      updates == [f \in fields |-> IF f = "status" THEN status ELSE logs]
  IN  /\ IF PatchCode(id, agentId) = 200
           THEN deployments' = updateDeployment(deployments, id, updates)
           ELSE UNCHANGED deployments
      /\ UNCHANGED <<tasks, inflight, now, webhookVars, routerVars, serverVars>>

\* time passes
Tick ==
  /\ now < MaxTime
  /\ now' = now + 1
  /\ UNCHANGED <<lifecycleVars, webhookVars, routerVars, serverVars>>

\* ----------------------------------------------------------------- lookup
\* a query that sorts the other way round
latestByAge(deps, rows) ==
  {i \in rows : \A j \in rows : deps[j].completed_at >= deps[i].completed_at}

\* the rows getLatestSuccessfulDeployment may return: ORDER BY completed_at
\* DESC LIMIT 1; among rows completed at the same instant the database is
\* free to return any
latestByRecency(deps, rows) ==
  {i \in rows : \A j \in rows : deps[j].completed_at <= deps[i].completed_at}

\* db/schema.ts getLatestSuccessfulDeployment
getLatestSuccessfulDeployment(deps, repoId) ==
  latestByRecency(deps, {i \in 1..Len(deps) : /\ deps[i].repo_id = repoId
                                              /\ deps[i].status = "success"
                                              /\ deps[i].url # NULL})

\* a response of the lookup endpoint
LookupResponse(code, url) == [code |-> code, url |-> url]

\* api/server.ts GET /api/lookup/:name: the responses it can give
Lookup(deps, name) ==
  LET repo == getRepository(name)
      rows == getLatestSuccessfulDeployment(deps, repo.id)
  IN  IF repo.id = NULL THEN {LookupResponse(404, NULL)}
      ELSE IF rows = {} THEN {LookupResponse(404, NULL)}
      ELSE {IF deps[i].url = NULL THEN LookupResponse(404, NULL)
                                  ELSE LookupResponse(200, deps[i].url) : i \in rows}

\* ---------------------------------------------------------------- routing
\* A host name is the sequence of its characters.  Runs of characters that
\* hold no dot are written as one word, so a host is a sequence of words and
\* dots and a label is a sequence of words: www.gitclawlab.com is
\* <<"www", ".", "gitclawlab", ".", "com">>.
Dot == "."

\* String.prototype.split('.'): the labels of a host, '' giving one empty label
RECURSIVE split(_)
split(str) ==
  IF str = <<>> THEN << <<>> >>
  ELSE LET rest == split(Tail(str))
       IN  IF Head(str) = Dot THEN << <<>> >> \o rest
           ELSE << <<Head(str)>> \o Head(rest) >> \o Tail(rest)

\* Array.prototype.join('.')
RECURSIVE join(_)
join(labels) ==
  IF labels = <<>> THEN <<>>
  ELSE IF Len(labels) = 1 THEN Head(labels)
  ELSE Head(labels) \o <<Dot>> \o join(Tail(labels))

\* String.prototype.endsWith
endsWith(str, suffix) ==
  /\ Len(str) >= Len(suffix)
  /\ SubSeq(str, Len(str) - Len(suffix) + 1, Len(str)) = suffix

\* String.prototype.includes, for a pattern that is one word
includes(str, word) == \E i \in 1..Len(str) : str[i] = word

\* api/server.ts BASE_DOMAIN and MAIN_SUBDOMAINS
BASE_DOMAIN == <<"gitclawlab", Dot, "com">>
MAIN_SUBDOMAINS == {<<"www">>, <<"api">>, <<"git">>, <<"ssh">>, <<>>}

\* cloudflare-worker/src/index.ts PASSTHROUGH_SUBDOMAINS
PASSTHROUGH_SUBDOMAINS == {<<"www">>, <<"api">>, <<"git">>, <<"ssh">>}

\* the hosts requests arrive with: up to MaxLabels labels joined by dots.
\* The Host header the origin reads is any text: it may be empty or start
\* with a dot.
Labels == {<<"app1">>, <<"www">>, <<"gitclawlab">>, <<"com">>, <<"my", "gitclawlab">>}
Hosts == {join(ls) : ls \in UNION {[1..n -> Labels] : n \in 1..MaxLabels}}
OriginHosts == Hosts \cup {<<>>} \cup {<<Dot>> \o h : h \in Hosts}

Routed(layer, host, decision, name) ==
  [layer |-> layer, host |-> host, decision |-> decision, name |-> name]

\* cloudflare-worker/src/index.ts fetch, up to its routing decision: pass
\* the request on to the origin, or look the first label up (KV cache, then
\* the lookup endpoint) and proxy
EdgeFetch(hostname) ==
  LET parts == split(hostname)
  IN  /\ routed = NoRequest
      /\ routed' = IF Len(parts) < 3 \/ parts[1] \in PASSTHROUGH_SUBDOMAINS
                     THEN Routed("edge", hostname, "passthrough", <<>>)
                     ELSE Routed("edge", hostname, "lookup", parts[1])
      /\ UNCHANGED <<lifecycleVars, now, webhookVars, serverVars>>

\* api/server.ts the subdomain proxy middleware, up to its routing decision:
\* next(), or getDeploymentUrl(subdomain) and proxy
OriginProxy(host) ==
  LET parts == split(host)
      subdomain == parts[1]
      isSubdomain == endsWith(host, BASE_DOMAIN) /\ subdomain \notin MAIN_SUBDOMAINS
  IN  /\ routed = NoRequest
      /\ routed' = IF Len(parts) < 2 \/ ~isSubdomain
                     THEN Routed("origin", host, "passthrough", <<>>)
                     ELSE Routed("origin", host, "lookup", subdomain)
      /\ UNCHANGED <<lifecycleVars, now, webhookVars, serverVars>>

\* the routed request is answered (by the main application, by the proxied
\* deployment or with an error) and the layer takes the next one
Respond ==
  /\ routed # NoRequest
  /\ routed' = NoRequest
  /\ UNCHANGED <<lifecycleVars, now, webhookVars, serverVars>>

\* --------------------------------------------------------------- webhooks
\* A target URL as the URL parser sees it: whether it parses, its scheme and
\* its host, which is an IPv4 address (four octets), an IPv6 address or a
\* domain name (labels of words).
Url(parses, protocol, kind, octets, labels) ==
  [parses |-> parses, protocol |-> protocol, kind |-> kind,
   octets |-> octets, labels |-> labels]

Ipv4Url(protocol, a, b, c, d) == Url(TRUE, protocol, "ipv4", <<a, b, c, d>>, <<>>)
Ipv6Url(protocol, addr) == Url(TRUE, protocol, "ipv6", <<>>, <<addr>>)
NameUrl(protocol, labels) == Url(TRUE, protocol, "name", <<>>, labels)
Unparsable == Url(FALSE, NULL, "none", <<>>, <<>>)

\* the octets that occur in target URLs, and their decimal numerals
Octets == {0, 1, 2, 8, 10, 16, 32, 127, 168, 169, 172, 192, 254}
Numerals ==
  (0 :> "0") @@ (1 :> "1") @@ (2 :> "2") @@ (8 :> "8") @@ (10 :> "10") @@ (16 :> "16")
  @@ (32 :> "32") @@ (127 :> "127") @@ (168 :> "168") @@ (169 :> "169")
  @@ (172 :> "172") @@ (192 :> "192") @@ (254 :> "254")

\* new URL(u).hostname.toLowerCase(): an IPv4 address in dotted decimal, an
\* IPv6 address between brackets, a domain name as it is
hostnameOf(u) ==
  CASE u.kind = "ipv4" -> join([i \in 1..4 |-> <<Numerals[u.octets[i]]>>])
    [] u.kind = "ipv6" -> <<"[">> \o u.labels \o <<"]">>
    [] OTHER -> join(u.labels)

NaN == -1

\* Number(label): the empty string is 0, a decimal numeral its value, any
\* other text NaN
Number(label) ==
  IF label = <<>> THEN 0
  ELSE IF Len(label) = 1 /\ \E n \in Octets : Numerals[n] = label[1]
    THEN CHOOSE n \in Octets : Numerals[n] = label[1]
  ELSE NaN

blockedPatterns == {"internal", "intranet", "corp", "private", "metadata"}

\* api/routes/webhooks.ts isInternalUrl
isInternalUrl(u) ==
  IF ~u.parses THEN TRUE
  ELSE LET hostname == hostnameOf(u)
           parts == split(hostname)
           ipParts == [i \in 1..Len(parts) |-> Number(parts[i])]
       IN  IF \/ hostname = <<"localhost">>
              \/ hostname = <<"127", Dot, "0", Dot, "0", Dot, "1">>
              \/ hostname = <<"::1">>
             THEN TRUE
           ELSE IF /\ Len(ipParts) = 4
                   /\ \A i \in 1..4 : ipParts[i] # NaN
                   /\ \/ ipParts[1] = 10
                      \/ ipParts[1] = 172 /\ ipParts[2] >= 16 /\ ipParts[2] <= 31
                      \/ ipParts[1] = 192 /\ ipParts[2] = 168
                      \/ ipParts[1] = 169 /\ ipParts[2] = 254
                      \/ \A i \in 1..4 : ipParts[i] = 0
             THEN TRUE
           ELSE IF \E p \in blockedPatterns : includes(hostname, p) THEN TRUE
           ELSE IF u.protocol \notin {"http:", "https:"} THEN TRUE
           ELSE FALSE

\* the target URLs callers register
Protocols == {"http:", "https:", "ftp:"}
TargetHosts ==
  {Ipv4Url("http:", a, b, 0, 1) : a \in {0, 8, 10, 127, 169, 172, 192}, b \in {0, 16, 32, 168, 254}}
  \cup {Ipv4Url("http:", 127, 0, 0, 2), Ipv4Url("http:", 0, 0, 0, 0),
        Ipv6Url("http:", "::1"), Ipv6Url("http:", "2001:db8::1"),
        NameUrl("http:", <<<<"localhost">>>>),
        NameUrl("http:", <<<<"hooks">>, <<"example">>, <<"com">>>>),
        NameUrl("http:", <<<<"metadata">>, <<"google">>, <<"internal">>>>),
        NameUrl("http:", <<<<"my", "corp", "net">>, <<"example">>, <<"com">>>>)}
TargetUrls ==
  TargetHosts
  \cup {[h EXCEPT !.protocol = p] :
          h \in {Ipv4Url("http:", 8, 0, 0, 1), Ipv4Url("http:", 172, 32, 0, 1),
                 NameUrl("http:", <<<<"hooks">>, <<"example">>, <<"com">>>>)},
          p \in Protocols}
  \cup {Unparsable}

\* the URLs a subscription is moved to
MovedUrls ==
  {Ipv4Url("https:", 127, 0, 0, 1), Ipv4Url("https:", 192, 0, 0, 2),
   NameUrl("ftp:", <<<<"hooks">>, <<"example">>, <<"com">>>>),
   NameUrl("https:", <<<<"hooks">>, <<"example">>, <<"com">>>>)}

validEvents == {"push", "pull_request", "deployment", "deployment_status"}

\* a row of the webhooks table
Webhook(repoId, url, events, active, t) ==
  [repo_id |-> repoId, url |-> url, events |-> events, is_active |-> active, created_at |-> t]

\* api/routes/webhooks.ts POST /repos/:name/webhooks: the status it answers
\* with; events = NULL stands for a body without events
CreateWebhookCode(name, agentId, url, events) ==
  LET repo == getRepository(name)
      webhookEvents == IF events = {NULL} THEN {"push"} ELSE events
  IN  IF ~url.parses \/ isInternalUrl(url) THEN 400
      ELSE IF ~(webhookEvents \subseteq validEvents) THEN 400
      ELSE IF repo.id = NULL THEN 404
      ELSE IF ~hasRepoAccess(agentId, repo.id, "admin") THEN 403
      ELSE 201

\* api/routes/webhooks.ts POST /repos/:name/webhooks
CreateWebhook(name, agentId, url, events) ==
  LET code == CreateWebhookCode(name, agentId, url, events)
      webhookEvents == IF events = {NULL} THEN {"push"} ELSE events
  IN  /\ code = 201 => Len(webhooks) < MaxWebhooks
      /\ IF code = 201
           THEN webhooks' = Append(webhooks,
                  Webhook(getRepository(name).id, url, webhookEvents, TRUE, now))
           ELSE UNCHANGED webhooks
      /\ UNCHANGED <<lifecycleVars, now, deliveries, dispatch, routerVars, serverVars>>

\* api/routes/webhooks.ts PATCH /repos/:name/webhooks/:id with a body that
\* sets url and is_active
UpdateWebhook(name, id, agentId, url, active) ==
  LET repo == getRepository(name)
      found == /\ repo.id # NULL
               /\ hasRepoAccess(agentId, repo.id, "admin")
               /\ id \in 1..Len(webhooks)
               /\ webhooks[id].repo_id = repo.id
  IN  /\ IF found /\ url.parses /\ ~isInternalUrl(url)
           THEN webhooks' = [webhooks EXCEPT ![id].url = url, ![id].is_active = active]
           ELSE UNCHANGED webhooks
      /\ UNCHANGED <<lifecycleVars, now, deliveries, dispatch, routerVars, serverVars>>

\* an outbound request: fetch(webhook.url, ...) has been called
Delivery(path, url, event) == [path |-> path, url |-> url, event |-> event]

\* api/routes/webhooks.ts POST /repos/:name/webhooks/:id/test
TestWebhook(name, id, agentId) ==
  LET repo == getRepository(name)
      found == /\ repo.id # NULL
               /\ hasRepoAccess(agentId, repo.id, "admin")
               /\ id \in 1..Len(webhooks)
               /\ webhooks[id].repo_id = repo.id
      sent == found /\ ~isInternalUrl(webhooks[id].url)
  IN  /\ sent => Cardinality(deliveries) < MaxDeliveries
      /\ deliveries' = IF sent THEN deliveries \cup {Delivery("test", webhooks[id].url, "ping")}
                               ELSE deliveries
      /\ UNCHANGED <<lifecycleVars, now, webhooks, dispatch, routerVars, serverVars>>

\* what fetch(webhook.url, ...) does with one delivery: it resolves with a
\* response of any status, or it rejects (no route, refused, timed out)
FetchOutcomes == {"2xx", "5xx", "rejects"}

\* deliverWebhooks without the try around fetch
deliveryRaisesUncaught(outcome) == outcome = "rejects"

\* api/routes/webhooks.ts deliverWebhooks, the try/catch around fetch: whether
\* a delivery's failure leaves the loop body
deliveryRaises(outcome) == FALSE

\* api/routes/webhooks.ts deliverWebhooks, the loop over the rows the query
\* returned, from row i on: the rows a request was made for, and whether an
\* exception left the loop. JSON.stringify stands outside the try and throws
\* on a payload that does not serialise
RECURSIVE deliverEach(_, _, _, _, _)
deliverEach(i, repoId, eventType, payload, fetches) ==
  IF i > Len(webhooks) THEN [threw |-> FALSE, attempted |-> {}]
  ELSE LET webhook == webhooks[i]
           rest == deliverEach(i + 1, repoId, eventType, payload, fetches)
       IN  IF ~(/\ webhook.repo_id = repoId
                /\ webhook.is_active
                /\ eventType \in webhook.events) THEN rest
           ELSE IF isInternalUrl(webhook.url) THEN rest
           ELSE IF payload = "circular" THEN [threw |-> TRUE, attempted |-> {}]
           ELSE IF deliveryRaises(fetches[i]) THEN [threw |-> TRUE, attempted |-> {i}]
           ELSE [rest EXCEPT !.attempted = @ \cup {i}]

\* api/routes/webhooks.ts deliverWebhooks: exported for "other parts of the
\* application"; no part of the application calls it. The query stands
\* outside any try
deliverWebhooks(repoId, eventType, query, payload, fetches) ==
  LET run == IF query = "fails" THEN [threw |-> TRUE, attempted |-> {}]
             ELSE deliverEach(1, repoId, eventType, payload, fetches)
      sent == {Delivery("dispatch", webhooks[i].url, eventType) : i \in run.attempted}
  IN  /\ Cardinality(deliveries \cup sent) <= MaxDeliveries
      /\ deliveries' = deliveries \cup sent
      /\ dispatch' = [called |-> TRUE, repoId |-> repoId, eventType |-> eventType,
                      query |-> query, payload |-> payload, fetches |-> fetches,
                      attempted |-> run.attempted, returned |-> ~run.threw]
      /\ UNCHANGED <<lifecycleVars, now, webhooks, routerVars, serverVars>>

\* ---------------------------------------------------------------- app names
\* names are sequences of characters; the characters that tell the branches
\* of sanitizeAppName apart: an upper-case and a lower-case letter, a digit,
\* the hyphen, an ASCII character and a letter outside the allowed set (each
\* a single character, whatever the length of its name here)
NameChars == {"A", "b", "7", "-", "_", "e-acute"}

\* String.prototype.toLowerCase on one character
lowerChar(c) == IF c = "A" THEN "a" ELSE c

\* the character class [a-z0-9-]
allowedChar(c) == c \in {"a", "b", "7", "-"}

toLowerCase(str) == [i \in 1..Len(str) |-> lowerChar(str[i])]

\* .replace(/[^a-z0-9-]/g, '-')
replaceDisallowed(str) ==
  [i \in 1..Len(str) |-> IF allowedChar(str[i]) THEN str[i] ELSE "-"]

\* .replace(/-+/g, '-'): of every run of hyphens the first stays
collapseHyphens(str) ==
  SelectSeq([i \in 1..Len(str) |->
               IF str[i] = "-" /\ i > 1 /\ str[i - 1] = "-" THEN "" ELSE str[i]],
            LAMBDA c : c # "")

\* .replace(/^-|-$/g, ''): one hyphen at the start and one at the end go
trimHyphens(str) ==
  LET from == IF Len(str) > 0 /\ str[1] = "-" THEN 2 ELSE 1
      to == IF Len(str) >= from /\ str[Len(str)] = "-" THEN Len(str) - 1 ELSE Len(str)
  IN  SubSeq(str, from, to)

\* .slice(0, n)
slice(str, n) == SubSeq(str, 1, IF Len(str) < n THEN Len(str) ELSE n)

\* deploy/types.ts sanitizeAppName
sanitizeAppName(name) ==
  slice(trimHyphens(collapseHyphens(replaceDisallowed(toLowerCase(name)))), 63)

\* a run of n letters, to reach the length at which slice cuts
Letters(n) == [i \in 1..n |-> "b"]

\* the names sanitizeAppName is tried on: a long or empty run of letters
\* followed by up to MaxNameLen characters, the empty name left out
Names ==
  {Letters(n) \o tail :
     n \in {0, 61, 62, 63},
     tail \in UNION {[1..k -> NameChars] : k \in 0..MaxNameLen}} \ {<<>>}

\* deploy/types.ts deploy: sanitizeAppName(config?.name || ...)
Sanitize ==
  /\ ~named.called
  /\ named' = [named EXCEPT !.called = TRUE, !.appName = sanitizeAppName(named.name)]
  /\ UNCHANGED <<cacheVars, pollVars, lifecycleVars, now, webhookVars, routerVars, limiterVars, engineVars, proxyVars, authVars>>

\* deploy/types.ts deploy: `moltlab-${deploymentId.slice(0, 8).toLowerCase()}`,
\* seven letters, a hyphen and eight letters and digits of the id
defaultName == Letters(7) \o <<"-">> \o <<"7", "b", "7", "b", "7", "b", "7", "b">>

\* deploy/types.ts deploy: options.appName || sanitizeAppName(config?.name ||
\* the generated default); the empty text stands for a name that is not given
appNameOf(optionName, configName) ==
  IF optionName # <<>> THEN optionName
  ELSE sanitizeAppName(IF configName # <<>> THEN configName ELSE defaultName)

\* deploy/types.ts deploy, up to the app name it puts into the adapter's
\* options: the name comes from the caller's option, from the manifest, or
\* from neither
EngineAppName(source) ==
  /\ ~named.called
  /\ named' = [named EXCEPT !.called = TRUE, !.source = source,
                 !.appName = CASE source = "option" -> appNameOf(named.name, <<>>)
                               [] source = "manifest" -> appNameOf(<<>>, named.name)
                               [] OTHER -> appNameOf(<<>>, <<>>)]
  /\ UNCHANGED <<cacheVars, pollVars, lifecycleVars, now, webhookVars, routerVars, limiterVars, engineVars,
                 proxyVars, authVars>>

\* -------------------------------------------------------------- runner login
\* clawrunner services/nango.ts NANGO_INTEGRATION
NANGO_INTEGRATION == "github-runner"

\* clawrunner api/nango-auth.ts: pending logins older than 10 * 60 * 1000 ms
\* are cleaned up
retention == 10 * minute

\* the signature headers of a webhook request: x-nango-signature and
\* x-nango-hmac-sha256, each absent, the HMAC of the body under the secret,
\* or something else
SignatureHeaders ==
  {[signature |-> NULL, hmac |-> NULL], [signature |-> "hmac-of-body", hmac |-> NULL],
   [signature |-> "forged", hmac |-> NULL], [signature |-> NULL, hmac |-> "forged"]}

\* a verification that lets every request through
verifyNothing(library, headers) == TRUE

\* clawrunner services/nango.ts (unnamed/part_002) verifyWebhookSignature: the
\* verdict of the Nango client, and the manual HMAC comparison when the
\* client raises
verifyWebhookSignature(library, headers) ==
  IF library = "accepts" THEN TRUE
  ELSE IF library = "rejects" THEN FALSE
  ELSE IF headers.signature = NULL /\ headers.hmac = NULL THEN FALSE
  ELSE headers.signature = "hmac-of-body" \/ headers.hmac = "hmac-of-body"

\* clawrunner api/nango-auth.ts POST /webhook with handleAuthWebhook.  nango
\* says how the calls of the Nango API end: getGithubUser raises, or it
\* yields the user and updateEndUser raises or returns
NangoWebhook(headers, library, type, connectionId, providerConfigKey, endUserId, nango) ==
  LET hasSignature == headers.signature # NULL \/ headers.hmac # NULL
      verified == hasSignature /\ verifyWebhookSignature(library, headers)
      handled == verified /\ type = "auth" /\ providerConfigKey = NANGO_INTEGRATION
      stores == handled /\ nango # "user-fails"
      login == [userId |-> IF endUserId # NULL THEN endUserId ELSE "random-uuid",
                githubUsername |-> "octocat", createdAt |-> now]
      status == IF ~verified THEN 401
                ELSE IF handled /\ nango # "ok" THEN 500
                ELSE 200
  IN  /\ pendingLogins' = IF stores THEN [pendingLogins EXCEPT ![connectionId] = login]
                                    ELSE pendingLogins
      /\ awaiting' = IF stores
                       THEN [awaiting EXCEPT ![connectionId] = [login |-> login, taken |-> FALSE]]
                       ELSE awaiting
      /\ hooked' = [connectionId |-> connectionId, headers |-> headers, status |-> status]
      /\ UNCHANGED <<cacheVars, pollVars, lifecycleVars, now, webhookVars, routerVars, limiterVars, engineVars,
                     proxyVars, nameVars, polled>>

\* a poll that leaves the entry where it is
keepLogin(store, connectionId) == store

\* clawrunner api/nango-auth.ts GET /login-status/:connectionId:
\* pendingLogins.delete(connectionId)
deleteLogin(store, connectionId) == [store EXCEPT ![connectionId] = NoLogin]

\* clawrunner api/nango-auth.ts GET /login-status/:connectionId
LoginStatus(connectionId) ==
  LET loginData == pendingLogins[connectionId]
  IN  /\ pendingLogins' = IF loginData = NoLogin THEN pendingLogins
                          ELSE deleteLogin(pendingLogins, connectionId)
      /\ polled' = [connectionId |-> connectionId,
                    ready |-> loginData # NoLogin,
                    user |-> IF loginData = NoLogin
                               THEN [id |-> NULL, githubUsername |-> NULL]
                               ELSE [id |-> loginData.userId,
                                     githubUsername |-> loginData.githubUsername],
                    awaited |-> awaiting[connectionId].login,
                    taken |-> awaiting[connectionId].taken,
                    at |-> now]
      /\ awaiting' = [awaiting EXCEPT ![connectionId].taken =
                        awaiting[connectionId].login # NoLogin]
      /\ UNCHANGED <<cacheVars, pollVars, lifecycleVars, now, webhookVars, routerVars, limiterVars, engineVars,
                     proxyVars, nameVars, hooked>>

\* clawrunner api/nango-auth.ts setInterval: entries created more than ten
\* minutes ago are deleted
SweepPendingLogins ==
  /\ pendingLogins' = [id \in ConnectionIds |->
        IF pendingLogins[id] # NoLogin /\ pendingLogins[id].createdAt < now - retention
          THEN NoLogin ELSE pendingLogins[id]]
  /\ UNCHANGED <<cacheVars, pollVars, lifecycleVars, now, webhookVars, routerVars, limiterVars, engineVars,
                 proxyVars, nameVars, awaiting, polled, hooked>>

\* ------------------------------------------------------------ forwarding
\* what the lookup of an app's deployment URL yields: no deployment, a URL,
\* or a stored text that is not a URL (nothing checks the url column)
StoredTargets == {NULL, "https://u1.up.railway.app", "not a url"}

\* new URL(path, base) raises for a base that is not a URL
validBase(url) == url = "https://u1.up.railway.app"

\* where forwarding goes wrong, if it does: the lookup raises, the upstream
\* request rejects, a response header is refused, or the upstream body
\* breaks off before or after the first chunk was written
ProxyFailures == {NULL, "lookup", "fetch", "header", "body-start", "body-midway"}

\* the statuses the deployed app answers with
UpstreamStatuses == {200, 404, 500}

\* api/server.ts proxy middleware, its catch block: res.status(502).send(...)
\* answers 502 as long as nothing was written; once the status line is out
\* send() raises and the client keeps the status it was given
originCatch(headersSent, statusSent) ==
  IF headersSent THEN [status |-> statusSent, escaped |-> TRUE]
  ELSE [status |-> 502, escaped |-> FALSE]

\* api/server.ts proxy middleware for a host that names an app: the part
\* within try
OriginForward(app, method, url, failure, upstream) ==
  LET answer ==
        IF failure = "lookup" THEN originCatch(FALSE, 0)
        ELSE IF url = NULL THEN [status |-> 404, escaped |-> FALSE]
        ELSE IF ~validBase(url) THEN originCatch(FALSE, 0)
        ELSE IF failure \in {"fetch", "header", "body-start"} THEN originCatch(FALSE, 0)
        ELSE IF failure = "body-midway" THEN originCatch(TRUE, upstream)
        ELSE [status |-> upstream, escaped |-> FALSE]
      resolved == failure # "lookup" /\ url # NULL
  IN  /\ proxied' = [layer |-> "origin", app |-> app, method |-> method, url |-> url,
                     failure |-> failure, upstream |-> upstream,
                     resolved |-> resolved,
                     raised |-> resolved /\ (failure # NULL \/ ~validBase(url)),
                     status |-> answer.status, escaped |-> answer.escaped]
      /\ UNCHANGED <<cacheVars, pollVars, lifecycleVars, now, webhookVars, routerVars, limiterVars, engineVars, nameVars, authVars>>

\* cloudflare-worker index.ts fetch for a host that names an app, the KV
\* entry missing: lookupDeploymentUrl turns its own failures into answers
\* (503 when the request raises), proxyToRailway builds the target URL
\* outside its try and forwards within it.  The worker hands the upstream
\* body to the runtime unread, so a body that breaks off is not an
\* exception of the worker.  An exception that leaves the worker is
\* answered by the runtime with its own error page, status 500
EdgeForward(app, method, url, failure, upstream) ==
  LET answer ==
        IF failure = "lookup" THEN [status |-> 503, escaped |-> FALSE]
        ELSE IF url = NULL THEN [status |-> 404, escaped |-> FALSE]
        ELSE IF ~validBase(url) THEN [status |-> 500, escaped |-> TRUE]
        ELSE IF failure = "fetch" THEN [status |-> 502, escaped |-> FALSE]
        ELSE [status |-> upstream, escaped |-> FALSE]
      resolved == failure # "lookup" /\ url # NULL
  IN  /\ failure \in {NULL, "lookup", "fetch"}
      /\ proxied' = [layer |-> "edge", app |-> app, method |-> method, url |-> url,
                     failure |-> failure, upstream |-> upstream,
                     resolved |-> resolved,
                     raised |-> resolved /\ (failure # NULL \/ ~validBase(url)),
                     status |-> answer.status, escaped |-> answer.escaped]
      /\ UNCHANGED <<cacheVars, pollVars, lifecycleVars, now, webhookVars, routerVars, limiterVars, engineVars, nameVars, authVars>>

\* ------------------------------------------------------ the engine alone
\* the options deploy() is called with: the HTTP trigger accepts the target
\* coolify and passes it on as the provider
EngineCalls == [provider : {NULL, "railway", "fly", "coolify"}, customDomain : {NULL}]

\* the manifests a source tree may hold
RailwayManifest == Manifest("My App", "railway", NULL, "app.example.com", NULL)
OtherManifest == Manifest("My App", "render", NULL, NULL, NULL)
BareManifest == Manifest("My App", NULL, NULL, NULL, NULL)
ManifestFiles ==
  {NoFiles, FilesOf(FlyManifest), FilesOf(TargetFlyManifest), FilesOf(RailwayManifest),
   FilesOf(OtherManifest), FilesOf(BareManifest),
   <<BadFile, GoodFile(FlyManifest), AbsentFile, AbsentFile>>,
   <<BadFile, BadFile, BadFile, BadFile>>}

\* every world the engine may find itself in: each collaborator works or
\* fails independently of the others
EngineWorlds ==
  {World(pathExists, files, hasDocker, docker, buildOK, railway, fly, adapter,
         remote.url, remote.domainOK, notifyThrows) :
     pathExists \in BOOLEAN, files \in ManifestFiles, hasDocker \in BOOLEAN,
     docker \in {DockerUp, DockerStopped, DockerMissing}, buildOK \in BOOLEAN,
     railway \in {CliReady, CliLoggedOut, CliMissing},
     fly \in {CliReady, CliLoggedOut, CliMissing},
     adapter \in {"ok", "fail", "throw"},
     remote \in {[url |-> NULL, domainOK |-> FALSE], [url |-> "https://u1", domainOK |-> TRUE]},
     notifyThrows \in BOOLEAN}

\* deploy/types.ts deploy, called once with the options and in the world
\* the behaviour started with
Deploy ==
  /\ ~engine.called
  /\ engine' = [engine EXCEPT !.called = TRUE, !.result = deploy(engine.o, engine.w)]
  /\ UNCHANGED <<cacheVars, pollVars, lifecycleVars, now, webhookVars, routerVars, limiterVars, proxyVars, nameVars, authVars>>

\* ---------------------------------------------------------- rate limiting
\* api/server.ts rateLimiter(windowMs, maxRequests): the middleware it
\* returns, run for a request of client key at time t over the shared store;
\* next says whether it called next()
rateLimiter(windowMs, maxRequests, store, key, t) ==
  LET record == store[key]
  IN  IF record = NoRecord \/ t > record.resetTime
        THEN [next |-> TRUE,
              store |-> [store EXCEPT ![key] = [count |-> 1, resetTime |-> t + windowMs]]]
      ELSE IF record.count >= maxRequests
        THEN [next |-> FALSE, store |-> store]
      ELSE [next |-> TRUE, store |-> [store EXCEPT ![key].count = @ + 1]]

\* app.use(prefix, ...): the middleware runs for the paths under the prefix
mounted(prefix, path) ==
  Len(prefix) <= Len(path) /\ SubSeq(path, 1, Len(prefix)) = prefix

\* request paths, as their segments
RequestPaths == {<<"health">>, <<"api", "repos">>, <<"api", "agents">>}

\* api/server.ts createServer: a request passes app.use('/api',
\* rateLimiter(60 * 1000, 100)) and then app.use('/api/agents',
\* rateLimiter(60 * 1000, 5)); both middlewares work on the one
\* rateLimitStore, keyed by req.ip. Status 200 stands for whatever the route
\* answers once the limiters have let the request through
ApiRequest(key, path) ==
  LET general == IF mounted(<<"api">>, path)
                   THEN rateLimiter(minute, 100, rateLimitStore, key, now)
                   ELSE [next |-> TRUE, store |-> rateLimitStore]
      registration == IF general.next /\ mounted(<<"api", "agents">>, path)
                        THEN rateLimiter(minute, 5, general.store, key, now)
                        ELSE general
  IN  /\ rateLimitStore' = registration.store
      /\ served' = [served EXCEPT ![key] =
            [general |-> @.general
                         + (IF mounted(<<"api">>, path) /\ general.next THEN 1 ELSE 0),
             registration |-> @.registration
                         + (IF mounted(<<"api", "agents">>, path) /\ registration.next
                              THEN 1 ELSE 0)]]
      /\ answered' = [key |-> key, path |-> path,
                      status |-> IF registration.next THEN 200 ELSE 429,
                      by |-> IF ~general.next THEN "general"
                             ELSE IF ~registration.next THEN "registration" ELSE NULL,
                      general |-> served[key].general,
                      registration |-> served[key].registration]
      /\ UNCHANGED <<cacheVars, pollVars, lifecycleVars, now, webhookVars, routerVars, engineVars, proxyVars, nameVars, authVars>>

\* api/server.ts setInterval: expired entries are deleted
SweepRateLimits ==
  /\ rateLimitStore' = [key \in ClientKeys |->
        IF rateLimitStore[key] # NoRecord /\ now > rateLimitStore[key].resetTime
          THEN NoRecord ELSE rateLimitStore[key]]
  /\ UNCHANGED <<cacheVars, pollVars, lifecycleVars, now, webhookVars, routerVars, served, answered, engineVars, proxyVars, nameVars, authVars>>

\* a span of more than a minute passes: no request made so far lies within
\* the last 60 seconds
Elapse(ms) ==
  /\ ms > minute
  /\ now + ms <= MaxWindows * ms
  /\ now' = now + ms
  /\ served' = [key \in ClientKeys |-> NoneServed]
  /\ UNCHANGED <<cacheVars, pollVars, lifecycleVars, webhookVars, routerVars, rateLimitStore, answered, engineVars, proxyVars, nameVars, authVars>>

\* ------------------------------------------------------- the origin's cache
\* a cache whose entries never expire
cacheHitForever(cached, t) == cached # NoEntry

\* api/server.ts getDeploymentUrl: cached && cached.expires > Date.now()
cacheHit(cached, t) == cached # NoEntry /\ cached.expires > t

\* api/server.ts getDeploymentUrl(appName): the cached URL while the entry
\* has not expired; otherwise the repository by name and its latest
\* successful deployment, whose URL is stored with the expiry now + CACHE_TTL
\* and returned; null without touching the cache when there is none
getDeploymentUrl(appName) ==
  LET cached == deploymentUrlCache[appName]
      repo == getRepository(appName)
      rows == IF repo.id = NULL THEN {}
              ELSE getLatestSuccessfulDeployment(deployments, repo.id)
      authoritative == {deployments[i].url : i \in rows}
      answer(url, fromCache) ==
        [appName |-> appName, url |-> url, fromCache |-> fromCache, cached |-> cached,
         authoritative |-> authoritative, at |-> now]
  IN  /\ IF cacheHit(cached, now)
           THEN /\ resolution' = answer(cached.url, TRUE)
                /\ UNCHANGED <<deploymentUrlCache, cacheOrigin>>
         ELSE IF rows = {}
           THEN /\ resolution' = answer(NULL, FALSE)
                /\ UNCHANGED <<deploymentUrlCache, cacheOrigin>>
         ELSE \E i \in rows :
                /\ deploymentUrlCache' = [deploymentUrlCache EXCEPT ![appName] =
                      [url |-> deployments[i].url, expires |-> now + CACHE_TTL]]
                /\ cacheOrigin' = [cacheOrigin EXCEPT ![appName] =
                      [url |-> deployments[i].url, at |-> now]]
                /\ resolution' = answer(deployments[i].url, FALSE)
      /\ UNCHANGED <<pollVars, lifecycleVars, now, webhookVars, routerVars, limiterVars,
                     engineVars, proxyVars, nameVars, authVars>>

\* the clock moves on by ms, which is more than a minute: no request made so
\* far lies within the last 60 seconds
Advance(ms) ==
  /\ ms > minute
  /\ now + ms <= 2 * MaxWindows * CACHE_TTL
  /\ now' = now + ms
  /\ served' = [key \in ClientKeys |-> NoneServed]
  /\ UNCHANGED <<cacheVars, pollVars, lifecycleVars, webhookVars, routerVars, rateLimitStore, answered,
                 engineVars, proxyVars, nameVars, authVars>>

\* ------------------------------------------------- polling the provider
\* providers/railway.ts pollRailwayDeployment: the default pollIntervalMs
pollIntervalMs == 10000

\* what getLatestRailwayDeployment returns: null (no deployment yet, no
\* token, or the request failed) or the id, status and static URL of the
\* service's latest deployment
NoRailwayDeployment == [id |-> "", status |-> "", url |-> NULL]
RailwayStatuses ==
  {"BUILDING", "DEPLOYING", "SUCCESS", "FAILED", "CRASHED", "REMOVED",
   "INITIALIZING", "WAITING", "QUEUED"}
RailwayDeployments ==
  {NoRailwayDeployment}
  \cup [id : {"dep-1"}, status : RailwayStatuses, url : {NULL, "app.up.railway.app"}]

\* a poller that takes only FAILED for a failure
failedOnly(status) == status = "FAILED"

\* providers/railway.ts pollRailwayDeployment:
\* ['FAILED', 'CRASHED', 'REMOVED'].includes(deployment.status)
failedStatus(status) == status \in {"FAILED", "CRASHED", "REMOVED"}

\* providers/railway.ts pollRailwayDeployment, up to its loop: without
\* RAILWAY_ENVIRONMENT_ID or without the service it returns an error at once
PollStart(environmentId, serviceId, maxWaitMs) ==
  /\ poller.pc = "idle"
  /\ poller' =
       IF environmentId = NULL
         THEN [poller EXCEPT !.pc = "returned",
                 !.result = [success |-> FALSE, status |-> "ERROR", url |-> NULL,
                             buildLogs |-> "RAILWAY_ENVIRONMENT_ID not set"]]
       ELSE IF serviceId = NULL
         THEN [poller EXCEPT !.pc = "returned",
                 !.result = [success |-> FALSE, status |-> "ERROR", url |-> NULL,
                             buildLogs |-> "Service not found"]]
       ELSE [poller EXCEPT !.pc = "loop", !.maxWaitMs = maxWaitMs, !.startTime = now]
  /\ UNCHANGED <<cacheVars, lifecycleVars, now, webhookVars, routerVars, limiterVars,
                 engineVars, proxyVars, nameVars, authVars>>

\* providers/railway.ts pollRailwayDeployment, one turn of the loop entered
\* while the wait is not over: the status request (which takes latency ms)
\* and what follows from its answer; buildLogs is what getRailwayBuildLogs
\* gives when it is called, null when it fails
PollTurn(deployment, latency, buildLogs) ==
  /\ poller.pc = "loop"
  /\ now - poller.startTime < poller.maxWaitMs
  /\ IF deployment = NoRailwayDeployment
       THEN /\ poller' = [poller EXCEPT !.requestedAt = now]
            /\ now' = now + latency + pollIntervalMs
     ELSE IF deployment.status = "SUCCESS"
       THEN /\ poller' = [poller EXCEPT !.pc = "returned", !.requestedAt = now,
                            !.deploymentId = deployment.id, !.lastStatus = deployment.status,
                            !.result = [success |-> TRUE, status |-> "SUCCESS",
                                        url |-> IF deployment.url # NULL
                                                  THEN "https://app.up.railway.app" ELSE NULL,
                                        buildLogs |-> NULL]]
            /\ now' = now + latency
     ELSE IF failedStatus(deployment.status)
       THEN /\ poller' = [poller EXCEPT !.pc = "returned", !.requestedAt = now,
                            !.deploymentId = deployment.id, !.lastStatus = deployment.status,
                            !.fetched = TRUE,
                            !.result = [success |-> FALSE, status |-> deployment.status,
                                        url |-> NULL,
                                        buildLogs |-> IF buildLogs # NULL THEN buildLogs
                                                      ELSE "no logs available"]]
            /\ now' = now + latency
     ELSE /\ poller' = [poller EXCEPT !.requestedAt = now,
                                      !.deploymentId = deployment.id,
                                      !.lastStatus = deployment.status]
          /\ now' = now + latency + pollIntervalMs
  /\ UNCHANGED <<cacheVars, lifecycleVars, webhookVars, routerVars, limiterVars,
                 engineVars, proxyVars, nameVars, authVars>>

\* providers/railway.ts pollRailwayDeployment, after the loop: the wait is
\* over; the build logs are asked for when a deployment has been seen
PollTimeout(buildLogs) ==
  /\ poller.pc = "loop"
  /\ ~(now - poller.startTime < poller.maxWaitMs)
  /\ poller' = [poller EXCEPT !.pc = "returned",
                  !.fetched = poller.deploymentId # "",
                  !.result = [success |-> FALSE, status |-> "TIMEOUT", url |-> NULL,
                              buildLogs |-> IF poller.deploymentId # "" /\ buildLogs # NULL
                                              THEN buildLogs
                                            ELSE "Deployment timed out waiting for completion"]]
  /\ UNCHANGED <<cacheVars, lifecycleVars, now, webhookVars, routerVars, limiterVars,
                 engineVars, proxyVars, nameVars, authVars>>

vars == <<deployments, tasks, inflight, now, webhooks, deliveries, dispatch, routed,
         rateLimitStore, served, answered, engine, proxied, named,
         pendingLogins, awaiting, polled, hooked,
         deploymentUrlCache, cacheOrigin, resolution, poller>>

\* the HTTP trigger, its background task, and cancel and retry requests
\* ------------------------------------------------------------ plan limits
\* a record of a1 on app1 whose build failed earlier in the month: what the
\* trigger and its background task leave behind
SeedDeployment ==
  LET created == createDeployment(<<>>, "r1", "HEAD", "railway", "a1", 0)
      r == deploy(EngineOptions(created[1]), BuildFails)
  IN  updateDeployment(created, 1, TriggerUpdate(r, 0))[1]

\* the database of an agent that has used nine of its ten deployments
InitQuota ==
  /\ deployments = [d \in 1..Seeded |-> SeedDeployment]
  /\ tasks = [d \in 1..Seeded |-> Task("trigger", "done", FALSE)]
  /\ inflight = {}
  /\ now = 0
  /\ webhooks = <<>>
  /\ deliveries = {}
  /\ dispatch = NoDispatch
  /\ routed = NoRequest
  /\ rateLimitStore = [key \in ClientKeys |-> NoRecord]
  /\ served = [key \in ClientKeys |-> NoneServed]
  /\ answered = NoAnswer
  /\ engine = NoCall
  /\ proxied = NoProxy
  /\ named = NoName
  /\ pendingLogins = [id \in ConnectionIds |-> NoLogin]
  /\ awaiting = [id \in ConnectionIds |-> NothingStored]
  /\ polled = NoPoll
  /\ hooked = NoHook
  /\ deploymentUrlCache = [appName \in RepoNames |-> NoEntry]
  /\ cacheOrigin = [appName \in RepoNames |-> NoOrigin]
  /\ resolution = NoResolution
  /\ poller = NoPolling

\* api/routes/webhooks.ts POST /repos/:name/deploy up to the verdict of
\* canDeploy: the handler is admitted and has yet to await createDeployment
DeployAdmitted(name, agentId, bodyTarget, commit_sha) ==
  LET target == IF bodyTarget = NULL THEN "railway" ELSE bodyTarget
      repo == getRepository(name)
      sha == IF commit_sha = NULL THEN "HEAD" ELSE commit_sha
  IN  /\ TriggerCode(deployments, name, agentId, bodyTarget) = 201
      /\ Cardinality(inflight) < MaxInflight
      /\ inflight' = inflight \cup
           {Request("deploy", 0, agentId, NewDeployment(repo.id, sha, target, agentId, now))}
      /\ UNCHANGED <<deployments, tasks, now, webhookVars, routerVars, serverVars>>

\* api/routes/webhooks.ts POST /repos/:name/deploy: createDeployment and the
\* 201 response of an admitted handler
DeployInsert(req) ==
  /\ req \in inflight
  /\ req.op = "deploy"
  /\ Len(deployments) < Capacity(deployments)
  /\ inflight' = inflight \ {req}
  /\ deployments' = createDeployment(deployments, req.deployment.repo_id,
                       req.deployment.commit_sha, req.deployment.target, req.agentId, now)
  /\ tasks' = Append(tasks, Task("trigger", "created", FALSE))
  /\ UNCHANGED <<now, webhookVars, routerVars, serverVars>>

\* an agent at the edge of its monthly limit: triggers whose plan check and
\* insert are separate awaits, uploads with deploy=true, retries
NextQuota ==
  \/ \E bodyTarget \in {NULL, "fly"}, commit_sha \in CommitShas :
       DeployAdmitted("app1", "a1", bodyTarget, commit_sha)
  \/ \E req \in inflight : DeployInsert(req)
  \/ \E agentId \in Agents : Trigger("app1", agentId, NULL, NULL)
  \/ \E queryTarget \in {NULL, "fly"} : Upload("app1", "a1", queryTarget)
  \/ \E d \in Seeded + 1..Seeded + MaxDeployments : TaskBuilding(d)
  \/ \E d \in Seeded + 1..Seeded + MaxDeployments, w \in {BuiltAndDeployed, BuildFails} :
       TriggerFinish(d, w)
  \/ \E id \in {1, Seeded + 1}, agentId \in Agents : ReadDeployment("retry", id, agentId)
  \/ \E req \in inflight : Retry(req)

SpecQuota == InitQuota /\ [][NextQuota]_vars

Next ==
  \/ \E name \in {"app1", "ghost"}, agentId \in Agents, bodyTarget \in BodyTargets, sha \in CommitShas :
       Trigger(name, agentId, bodyTarget, sha)
  \/ \E d \in 1..MaxDeployments : TaskBuilding(d)
  \/ \E d \in 1..MaxDeployments, w \in LifecycleWorlds : TriggerFinish(d, w)
  \/ \E op \in {"cancel", "retry"}, id \in 1..MaxDeployments, agentId \in Agents :
       ReadDeployment(op, id, agentId)
  \/ \E req \in inflight : Cancel(req)
  \/ \E req \in inflight : Retry(req)

Spec == Init /\ [][Next]_vars

\* the background task of a trigger is a detached promise chain: once
\* started it takes its next step whatever the clients do
SpecFair ==
  /\ Spec
  /\ \A d \in 1..MaxDeployments :
       /\ WF_vars(d \in 1..Len(deployments) /\ TaskBuilding(d))
       /\ WF_vars(/\ d \in 1..Len(deployments)
                  /\ \E w \in LifecycleWorlds : TriggerFinish(d, w))

\* deployments run by the HTTP trigger and updated through the internal
\* endpoint
NextPatch ==
  \/ \E bodyTarget \in {NULL, "fly"} : Trigger("app1", "a1", bodyTarget, "c1")
  \/ \E d \in 1..MaxDeployments : TaskBuilding(d)
  \/ \E d \in 1..MaxDeployments, w \in {BuiltAndDeployed, BuildFails} : TriggerFinish(d, w)
  \/ \E id \in 1..MaxDeployments, agentId \in Agents, status \in PatchStatuses,
        logs \in {NoLogs, <<"worker output">>} :
       PatchDeployment(id, agentId, status, logs)

SpecPatch == Init /\ [][NextPatch]_vars

\* pushes handled by the post-receive hook, with cancel requests
NextHook ==
  \/ \E repoName \in {"app1", "ghost"}, revision \in Revisions : HookPush(repoName, revision)
  \/ \E d \in 1..MaxDeployments, checkedOut \in BOOLEAN : HookMaterialize(d, checkedOut)
  \/ \E d \in 1..MaxDeployments : HookDeploying(d)
  \/ \E d \in 1..MaxDeployments, w \in UploadWorlds : HookFinish(d, w)
  \/ \E id \in 1..MaxDeployments : ReadDeployment("cancel", id, "a1")
  \/ \E req \in inflight : Cancel(req)

SpecHook == Init /\ [][NextHook]_vars

\* the hook process runs handlePostReceive to its end for every push
SpecHookFair ==
  /\ SpecHook
  /\ \A d \in 1..MaxDeployments :
       /\ WF_vars(/\ d \in 1..Len(deployments)
                  /\ \E checkedOut \in BOOLEAN : HookMaterialize(d, checkedOut))
       /\ WF_vars(d \in 1..Len(deployments) /\ HookDeploying(d))
       /\ WF_vars(/\ d \in 1..Len(deployments)
                  /\ \E w \in UploadWorlds : HookFinish(d, w))

\* uploads with deploy=true, with retry requests
NextUpload ==
  \/ \E name \in {"app1", "ghost"}, agentId \in Agents, queryTarget \in BodyTargets :
       Upload(name, agentId, queryTarget)
  \/ \E d \in 1..MaxDeployments : TaskBuilding(d)
  \/ \E d \in 1..MaxDeployments, w \in UploadWorlds, bindRefused \in BOOLEAN :
       UploadFinish(d, w, bindRefused)
  \/ \E id \in 1..MaxDeployments : ReadDeployment("retry", id, "a1")
  \/ \E req \in inflight : Retry(req)

SpecUpload == Init /\ [][NextUpload]_vars

\* the lookup endpoint's view: two repositories, deployments completing at
\* different instants, cancels and retries
NextLookup ==
  \/ \E name \in RepoNames, bodyTarget \in {NULL, "fly"} : Trigger(name, "a1", bodyTarget, NULL)
  \/ \E d \in 1..MaxDeployments : TaskBuilding(d)
  \/ \E d \in 1..MaxDeployments, w \in {BuiltAndDeployed, DeployedNoUrl, AdapterRaises} :
       TriggerFinish(d, w)
  \/ \E op \in {"cancel", "retry"}, id \in 1..MaxDeployments : ReadDeployment(op, id, "a1")
  \/ \E req \in inflight : Cancel(req)
  \/ \E req \in inflight : Retry(req)
  \/ Tick

SpecLookup == Init /\ [][NextLookup]_vars

\* requests arriving at the edge worker and at the origin's proxy middleware
NextRouter ==
  \/ \E hostname \in Hosts : EdgeFetch(hostname)
  \/ \E host \in OriginHosts : OriginProxy(host)
  \/ Respond

SpecRouter == Init /\ [][NextRouter]_vars

\* webhook subscriptions, test deliveries and the dispatch helper
NextWebhook ==
  \/ \E url \in TargetUrls, events \in {{NULL}, {"deployment"}, {"push", "release"}} :
       CreateWebhook("app1", "a1", url, events)
  \/ \E id \in 1..MaxWebhooks, url \in MovedUrls, active \in BOOLEAN :
       UpdateWebhook("app1", id, "a1", url, active)
  \/ \E id \in 1..MaxWebhooks, agentId \in Agents : TestWebhook("app1", id, agentId)
  \/ \E eventType \in {"push", "deployment"}, outcome \in FetchOutcomes :
       deliverWebhooks("r1", eventType, "rows", "plain",
                       [i \in 1..Len(webhooks) |-> outcome])

SpecWebhook == Init /\ [][NextWebhook]_vars

\* the dispatch helper over a table it did not write: rows as the table may
\* hold them, whoever stored them (the helper screens each URL again)
StoredUrls ==
  {NameUrl("https:", <<<<"hooks">>, <<"example">>, <<"com">>>>), Ipv4Url("http:", 10, 0, 0, 1)}
StoredRows ==
  {Webhook("r1", url, events, active, 0) :
     url \in StoredUrls, events \in {{"push"}, {"deployment"}}, active \in BOOLEAN}

InitDispatch ==
  /\ deployments = <<>>
  /\ tasks = <<>>
  /\ inflight = {}
  /\ now = 0
  /\ webhooks \in UNION {[1..n -> StoredRows] : n \in 0..MaxSubscriptions}
  /\ deliveries = {}
  /\ dispatch = NoDispatch
  /\ routed = NoRequest
  /\ rateLimitStore = [key \in ClientKeys |-> NoRecord]
  /\ served = [key \in ClientKeys |-> NoneServed]
  /\ answered = NoAnswer
  /\ engine = NoCall
  /\ proxied = NoProxy
  /\ named = NoName
  /\ pendingLogins = [id \in ConnectionIds |-> NoLogin]
  /\ awaiting = [id \in ConnectionIds |-> NothingStored]
  /\ polled = NoPoll
  /\ hooked = NoHook
  /\ deploymentUrlCache = [appName \in RepoNames |-> NoEntry]
  /\ cacheOrigin = [appName \in RepoNames |-> NoOrigin]
  /\ resolution = NoResolution
  /\ poller = NoPolling

\* one call per behaviour: the helper only reads the table, a second call
\* sees what the first saw
NextDispatch ==
  \E eventType \in {"push", "deployment"}, query \in {"rows", "fails"},
     payload \in {"plain", "circular"}, fetches \in [1..Len(webhooks) -> FetchOutcomes] :
    ~dispatch.called /\ deliverWebhooks("r1", eventType, query, payload, fetches)

SpecDispatch == InitDispatch /\ [][NextDispatch]_vars

\* the login of the runner application: webhooks from Nango, polls from the
\* browser, the cleanup timer and the clock
NextAuth ==
  \/ \E headers \in SignatureHeaders, library \in {"accepts", "rejects", "raises"},
        connectionId \in ConnectionIds :
       NangoWebhook(headers, library, "auth", connectionId, NANGO_INTEGRATION, NULL, "ok")
  \/ \E type \in {"auth", "sync"}, connectionId \in ConnectionIds,
        providerConfigKey \in {NANGO_INTEGRATION, "github-other"},
        endUserId \in {NULL, "user-7"}, nango \in {"ok", "user-fails", "update-fails"} :
       NangoWebhook([signature |-> "hmac-of-body", hmac |-> NULL], "accepts", type,
                    connectionId, providerConfigKey, endUserId, nango)
  \/ \E connectionId \in ConnectionIds : LoginStatus(connectionId)
  \/ SweepPendingLogins
  \/ Elapse(retention + 1)

SpecAuth == Init /\ [][NextAuth]_vars

\* sanitizeAppName on its own
InitNames ==
  /\ deployments = <<>>
  /\ tasks = <<>>
  /\ inflight = {}
  /\ now = 0
  /\ webhooks = <<>>
  /\ deliveries = {}
  /\ dispatch = NoDispatch
  /\ routed = NoRequest
  /\ rateLimitStore = [key \in ClientKeys |-> NoRecord]
  /\ served = [key \in ClientKeys |-> NoneServed]
  /\ answered = NoAnswer
  /\ engine = NoCall
  /\ proxied = NoProxy
  /\ named \in {[NoName EXCEPT !.name = name] : name \in Names}
  /\ pendingLogins = [id \in ConnectionIds |-> NoLogin]
  /\ awaiting = [id \in ConnectionIds |-> NothingStored]
  /\ polled = NoPoll
  /\ hooked = NoHook
  /\ deploymentUrlCache = [appName \in RepoNames |-> NoEntry]
  /\ cacheOrigin = [appName \in RepoNames |-> NoOrigin]
  /\ resolution = NoResolution
  /\ poller = NoPolling

NextNames == Sanitize

SpecNames == InitNames /\ [][NextNames]_vars

\* the engine naming the app it deploys
NextAppNames == \E source \in {"option", "manifest", "default"} : EngineAppName(source)

SpecAppNames == InitNames /\ [][NextAppNames]_vars

\* app requests forwarded by the two routing layers
NextProxy ==
  \/ \E app \in {"app1", "app2"}, method \in {"GET", "POST"}, url \in StoredTargets,
        failure \in ProxyFailures, upstream \in UpstreamStatuses :
       OriginForward(app, method, url, failure, upstream)
  \/ \E app \in {"app1", "app2"}, method \in {"GET", "POST"}, url \in StoredTargets,
        failure \in ProxyFailures, upstream \in UpstreamStatuses :
       EdgeForward(app, method, url, failure, upstream)

SpecProxy == Init /\ [][NextProxy]_vars

\* the engine called directly, in any world
InitEngine ==
  /\ deployments = <<>>
  /\ tasks = <<>>
  /\ inflight = {}
  /\ now = 0
  /\ webhooks = <<>>
  /\ deliveries = {}
  /\ dispatch = NoDispatch
  /\ routed = NoRequest
  /\ rateLimitStore = [key \in ClientKeys |-> NoRecord]
  /\ served = [key \in ClientKeys |-> NoneServed]
  /\ answered = NoAnswer
  /\ proxied = NoProxy
  /\ named = NoName
  /\ pendingLogins = [id \in ConnectionIds |-> NoLogin]
  /\ awaiting = [id \in ConnectionIds |-> NothingStored]
  /\ polled = NoPoll
  /\ hooked = NoHook
  /\ deploymentUrlCache = [appName \in RepoNames |-> NoEntry]
  /\ cacheOrigin = [appName \in RepoNames |-> NoOrigin]
  /\ resolution = NoResolution
  /\ poller = NoPolling
  /\ engine \in {[NoCall EXCEPT !.o = o, !.w = w] : o \in EngineCalls, w \in EngineWorlds}

NextEngine == Deploy

SpecEngine == InitEngine /\ [][NextEngine]_vars

\* the limiters in front of the API
NextLimiter ==
  \/ \E key \in ClientKeys, path \in RequestPaths : ApiRequest(key, path)
  \/ SweepRateLimits
  \/ Elapse(minute + 1)

SpecLimiter == Init /\ [][NextLimiter]_vars

\* the control plane as it is wired: subscriptions are registered and
\* tested, deployments are triggered and run
NextEvents ==
  \/ \E url \in {NameUrl("https:", <<<<"hooks">>, <<"example">>, <<"com">>>>),
                 Ipv4Url("http:", 10, 0, 0, 1)},
        events \in {{NULL}, {"deployment", "deployment_status"}} :
       CreateWebhook("app1", "a1", url, events)
  \/ \E id \in 1..MaxWebhooks : TestWebhook("app1", id, "a1")
  \/ \E name \in {"app1", "app2"}, bodyTarget \in {NULL, "fly"} : Trigger(name, "a1", bodyTarget, NULL)
  \/ \E d \in 1..MaxDeployments : TaskBuilding(d)
  \/ \E d \in 1..MaxDeployments, w \in {BuiltAndDeployed, BuildFails, AdapterRaises} :
       TriggerFinish(d, w)
  \/ Tick

SpecEvents == Init /\ [][NextEvents]_vars

\* the origin resolving app names while deployments complete, the clock
\* moves and the server's cleanup timer fires
NextCache ==
  \/ \E bodyTarget \in {NULL, "fly"} : Trigger("app1", "a1", bodyTarget, NULL)
  \/ \E d \in 1..MaxDeployments : TaskBuilding(d)
  \/ \E d \in 1..MaxDeployments, w \in {BuiltAndDeployed, BuildFails} : TriggerFinish(d, w)
  \/ \E appName \in {"app1", "ghost"} : getDeploymentUrl(appName)
  \/ SweepRateLimits
  \/ \E ms \in {CACHE_TTL - 1, CACHE_TTL} : Advance(ms)

SpecCache == Init /\ [][NextCache]_vars

\* the timer of the cleanup fires again and again, and time does not stop
SpecCacheFair ==
  /\ SpecCache
  /\ WF_vars(SweepRateLimits)
  /\ WF_vars(\E ms \in {CACHE_TTL - 1, CACHE_TTL} : Advance(ms))

\* one call of pollRailwayDeployment against a provider whose answers vary
NextPoll ==
  \/ \E environmentId \in {NULL, "env-1"}, serviceId \in {NULL, "svc-1"}, n \in 1..MaxPolls :
       PollStart(environmentId, serviceId, n * pollIntervalMs)
  \/ \E deployment \in RailwayDeployments, latency \in {0, pollIntervalMs},
        buildLogs \in {NULL, "build output"} :
       PollTurn(deployment, latency, buildLogs)
  \/ \E buildLogs \in {NULL, "build output"} : PollTimeout(buildLogs)

SpecPoll == Init /\ [][NextPoll]_vars

\* ------------------------------------------------- deployment life cycle
\* C1: the distinct status values a deployment record takes over time form a
\* subsequence of pending, building, deploying, success|failed (a cancel
\* going from pending, building or deploying straight to failed): a record
\* is created pending, and every change of its status leaves a status that
\* is not terminal for one that comes later in that order.
C1_StatusOrder ==
  [][ LET Rank(st) == CASE st = "pending" -> 0 [] st = "building" -> 1
                        [] st = "deploying" -> 2 [] OTHER -> 3
      IN  /\ \A d \in 1..Len(deployments) :
               deployments'[d].status # deployments[d].status =>
                 Rank(deployments[d].status) < Rank(deployments'[d].status)
          /\ \A d \in (Len(deployments) + 1)..Len(deployments') :
               deployments'[d].status = "pending" ]_vars

\* C2: once a cancel request has succeeded on an in-flight deployment (the
\* record is failed and its log ends with the cancellation marker), the
\* step in which the still-running pipeline completes and writes the outcome
\* of the engine call leaves the status failed.
C2_CancelledStaysFailed ==
  [][ LET Cancelled(dep) ==
            /\ dep.status = "failed"
            /\ dep.logs # NoLogs
            /\ dep.logs[Len(dep.logs)] = "[CANCELLED] Deployment cancelled by user"
      IN  \A d \in 1..Len(deployments) :
            (Cancelled(deployments[d]) /\ tasks[d].pc = "building" /\ tasks'[d].pc = "done")
              => deployments'[d].status = "failed" ]_vars

\* C3: a cancel request that finds the deployment in success or failed is
\* rejected and leaves every record as it was, and a retry request that
\* finds the deployment in another status than failed is rejected and
\* inserts nothing; the rejection is a 400 for a requester with write
\* access (one without is turned away with 403 before the status is looked at).
C3_TerminalRequestsRejected ==
  [][ \A req \in inflight :
        inflight' = inflight \ {req} =>
          LET authorised == hasRepoAccess(req.agentId, req.deployment.repo_id, "write")
          IN  /\ (req.op = "cancel" /\ req.deployment.status \in {"success", "failed"}) =>
                   /\ CancelCode(req) = IF authorised THEN 400 ELSE 403
                   /\ deployments' = deployments
              /\ (req.op = "retry" /\ req.deployment.status # "failed") =>
                   /\ RetryCode(req) = IF authorised THEN 400 ELSE 403
                   /\ deployments' = deployments ]_vars

\* a cancel request of the owner that has read a deployment the pipeline
\* completed with success
C3_Witness ==
  \E req \in inflight :
    /\ req.op = "cancel"
    /\ req.deployment.status = "success"
    /\ hasRepoAccess(req.agentId, req.deployment.repo_id, "write")
    /\ tasks[req.id].pc = "done"

\* C4: a retry that is answered 201 inserts exactly one record; it is
\* pending and has the repository, commit and provider of the failed
\* original, and every record that existed before, the original included,
\* keeps every field.
C4_RetryClones ==
  [][ \A req \in inflight :
        (inflight' = inflight \ {req} /\ req.op = "retry" /\ RetryCode(req) = 201) =>
          /\ Len(deployments') = Len(deployments) + 1
          /\ \A i \in 1..Len(deployments) : deployments'[i] = deployments[i]
          /\ LET new == deployments'[Len(deployments')]
                 old == req.deployment
             IN  /\ new.status = "pending"
                 /\ new.repo_id = old.repo_id
                 /\ new.commit_sha = old.commit_sha
                 /\ new.target = old.target ]_vars

\* a record inserted by a retry stands next to its failed original, which
\* was deployed to fly from a named commit
C4_Witness ==
  \E i, d \in 1..Len(deployments) :
    /\ i < d
    /\ tasks[d] = NoTask
    /\ deployments[d].status = "pending"
    /\ deployments[i].status = "failed"
    /\ deployments[i].target = "fly"
    /\ deployments[i].commit_sha = "c1"
    /\ deployments[d].target = "fly"
    /\ deployments[d].commit_sha = "c1"

\* C5: when the source tree has a build descriptor, the local builder is
\* installed and running and the image build fails, the engine returns a
\* failure having called no provider adapter, and the record is failed once
\* the pipeline has written its outcome.
C5_BuildFailureStopsDeploy ==
  \A d \in 1..Len(deployments) :
    (tasks[d].run.ran /\ tasks[d].run.buildFailed) =>
      /\ ~tasks[d].run.success
      /\ ~tasks[d].run.threw
      /\ tasks[d].run.adapterCalls = <<>>
      /\ deployments[d].status = "failed"

\* a pipeline has run the engine on a tree whose image build failed
C5_Witness ==
  \E d \in 1..Len(deployments) :
    /\ tasks[d].pc = "done"
    /\ tasks[d].run.buildFailed
    /\ deployments[d].status = "failed"
    /\ deployments[d].logs # NoLogs

\* C6: a deployment started without a provider choice of the caller, for a
\* tree whose manifest sets deploy.provider to fly, selects fly and invokes
\* no other adapter.
C6_ManifestProviderWins ==
  \A d \in 1..Len(deployments) :
    (tasks[d].run.ran /\ ~tasks[d].explicit /\ tasks[d].run.manifestProvider = "fly") =>
      /\ tasks[d].run.provider = "fly"
      /\ \A i \in 1..Len(tasks[d].run.adapterCalls) : tasks[d].run.adapterCalls[i] = "fly"

\* ----------------------------------------------------- routing and lookup
\* C7: at the edge and at the origin, a host with fewer than 3 labels or
\* with a reserved first label (www, api, git, ssh, the empty label) is
\* passed through with no application lookup, and a host with at least 3
\* labels and another first label is looked up under that first label.
C7_LabelRouting ==
  routed # NoRequest =>
    LET labels == split(routed.host)
    IN  IF Len(labels) < 3 \/ labels[1] \in {<<"www">>, <<"api">>, <<"git">>, <<"ssh">>, <<>>}
          THEN routed.decision = "passthrough"
          ELSE routed.decision = "lookup" /\ routed.name = labels[1]

\* C8: whatever deployments have been created, completed, cancelled and
\* retried, the lookup endpoint answers 404 when no repository goes by the
\* name (getRepository matches the name or the id) or the repository has no
\* deployment with status success and a URL, and otherwise answers 200 with
\* the URL of such a deployment of the repository than which none was
\* completed later.
C8_LookupAnswers ==
  \A name \in RepoNames \cup {"r1"} :
    LET repoIds == {r.id : r \in {x \in Repositories : x.name = name \/ x.id = name}}
        good == {i \in 1..Len(deployments) : /\ deployments[i].repo_id \in repoIds
                                             /\ deployments[i].status = "success"
                                             /\ deployments[i].url # NULL}
    IN  \A r \in Lookup(deployments, name) :
          IF good = {} THEN r.code = 404
          ELSE /\ r.code = 200
               /\ \E i \in good :
                    /\ r.url = deployments[i].url
                    /\ \A j \in good :
                         deployments[j].completed_at <= deployments[i].completed_at

\* a repository has two successful deployments with different URLs, the
\* second completed later than the first, and the lookup answers with the
\* second one's URL
C8_Witness ==
  /\ Len(deployments) = 2
  /\ deployments[1].repo_id = "r1" /\ deployments[2].repo_id = "r1"
  /\ deployments[1].status = "success" /\ deployments[2].status = "success"
  /\ deployments[1].url # NULL /\ deployments[2].url # NULL
  /\ deployments[1].url # deployments[2].url
  /\ deployments[1].completed_at > deployments[2].completed_at
  /\ Lookup(deployments, "app1") = {LookupResponse(200, deployments[1].url)}
  /\ Lookup(deployments, "app2") = {LookupResponse(404, NULL)}

\* --------------------------------------------------------------- webhooks
\* C9: when a deployment of a repository has been created and has reached
\* success or failed, a delivery has been attempted to every active
\* subscription of that repository that was registered before, subscribes
\* to deployment events and has a URL that passes the screen.
C9_EventsDelivered ==
  \A d \in 1..Len(deployments), i \in 1..Len(webhooks) :
    ( /\ tasks[d].pc = "done"
      /\ webhooks[i].repo_id = deployments[d].repo_id
      /\ webhooks[i].is_active
      /\ webhooks[i].created_at < deployments[d].started_at
      /\ webhooks[i].events \cap {"deployment", "deployment_status"} # {}
      /\ ~isInternalUrl(webhooks[i].url) )
    => \E del \in deliveries :
         /\ del.path = "dispatch"
         /\ del.url = webhooks[i].url
         /\ del.event \in webhooks[i].events

\* C10: no outbound webhook request goes to a URL whose host is localhost
\* or a loopback address, lies in 10/8, 172.16/12, 192.168/16 or
\* 169.254/16, contains a blocked keyword, or whose scheme is not HTTP(S).
C10_NoInternalDelivery ==
  \A del \in deliveries :
    LET u == del.url
        o == u.octets
    IN  /\ u.parses
        /\ u.protocol \in {"http:", "https:"}
        /\ u.kind = "ipv4" =>
             /\ o[1] # 127
             /\ o[1] # 10
             /\ ~(o[1] = 172 /\ o[2] \in 16..31)
             /\ ~(o[1] = 192 /\ o[2] = 168)
             /\ ~(o[1] = 169 /\ o[2] = 254)
        /\ u.kind = "ipv6" => u.labels # <<"::1">>
        /\ u.kind = "name" =>
             /\ u.labels # << <<"localhost">> >>
             /\ \A i \in 1..Len(u.labels) : \A p \in blockedPatterns : ~includes(u.labels[i], p)

C12_LimitsAsDocumented ==
  answered.key # NULL
    => (answered.status = 429
          <=> \/ mounted(<<"api">>, answered.path) /\ answered.general >= 100
              \/ mounted(<<"api", "agents">>, answered.path) /\ answered.registration >= 5)

\* C13: whatever the collaborators do, a call of deploy() returns a result
\* instead of raising: a success flag, an error text whenever the flag is
\* false, the log lines and the provider.
C13_DeployNeverRaises ==
  engine.called
    => /\ ~engine.result.threw
       /\ ~engine.result.success => engine.result.error # NULL
       /\ engine.result.logs # <<>>
       /\ engine.result.provider \in {"railway", "fly", "coolify"}

C14_ProxyFailureIs502 ==
  proxied.raised => proxied.status = 502 /\ ~proxied.escaped

\* C16: the result of sanitizeAppName has between 1 and 63 characters, all
\* of them lower-case letters, digits or hyphens, and no two hyphens in a
\* row.
C16_ValidAppName ==
  named.called
    => /\ Len(named.appName) \in 1..63
       /\ \A i \in 1..Len(named.appName) : allowedChar(named.appName[i])
       /\ \A i \in 1..(Len(named.appName) - 1) :
            ~(named.appName[i] = "-" /\ named.appName[i + 1] = "-")

\* C17 as stated: a poll answers ready:true, with the user the last auth
\* webhook stored for the connection, exactly when such a webhook has stored
\* a login that no poll has taken yet.
C17_FirstPollReady ==
  polled.connectionId # NULL
    => /\ polled.ready <=> (polled.awaited # NoLogin /\ ~polled.taken)
       /\ polled.ready => /\ polled.user.id = polled.awaited.userId
                           /\ polled.user.githubUsername = polled.awaited.githubUsername

\* C17 amended: a poll answers ready:true only for a login an auth webhook
\* stored and no poll has taken yet, and then with that login's user; and
\* it does answer ready:true for such a login when it comes no later than
\* ten minutes after the webhook stored it.
C17_OneTimeWhileKept ==
  polled.connectionId # NULL
    => /\ polled.ready => /\ polled.awaited # NoLogin /\ ~polled.taken
                           /\ polled.user.id = polled.awaited.userId
                           /\ polled.user.githubUsername = polled.awaited.githubUsername
       /\ (/\ polled.awaited # NoLogin /\ ~polled.taken
           /\ polled.at - polled.awaited.createdAt <= retention) => polled.ready

\* a second poll for a connection whose login an earlier poll has taken:
\* answered ready:false
C17_Witness ==
  /\ polled.connectionId # NULL
  /\ polled.awaited # NoLogin /\ polled.taken
  /\ ~polled.ready

\* C18: a webhook request without a signature header, or with a signature
\* that fails verification (the Nango client rejects it, or the client
\* raises and neither header equals the HMAC of the body), is answered 401
\* and changes no pending login.
C18_UnverifiedRejected ==
  [][\A headers \in SignatureHeaders, library \in {"accepts", "rejects", "raises"},
       connectionId \in ConnectionIds :
      (/\ \/ headers.signature = NULL /\ headers.hmac = NULL
          \/ library = "rejects"
          \/ library = "raises" /\ "hmac-of-body" \notin {headers.signature, headers.hmac}
       /\ NangoWebhook(headers, library, "auth", connectionId, NANGO_INTEGRATION, NULL, "ok"))
        => hooked'.status = 401 /\ pendingLogins' = pendingLogins]_vars

\* a request with a forged signature for a connection, answered 401, while
\* no login is pending for that connection
C18_Witness ==
  /\ hooked.status = 401
  /\ hooked.headers.signature = "forged"
  /\ pendingLogins[hooked.connectionId] = NoLogin

\* C19: a PATCH /deployments/:id request never leaves a record with a
\* status that comes earlier in pending, building, deploying, success|failed
\* than the one it had, and never changes the status of a record that is
\* success or failed.
C19_PatchOnlyForward ==
  [][\A id \in 1..MaxDeployments, agentId \in Agents, status \in PatchStatuses,
       logs \in {NoLogs, <<"worker output">>} :
      (id \in 1..Len(deployments) /\ PatchDeployment(id, agentId, status, logs))
        => LET Rank(st) == CASE st = "pending" -> 0 [] st = "building" -> 1
                             [] st = "deploying" -> 2 [] OTHER -> 3
               old == deployments[id].status
               new == deployments'[id].status
           IN  /\ Rank(old) <= Rank(new)
               /\ old \in {"success", "failed"} => new = old]_vars

\* C20: the write with which a pipeline stores its final result leaves a
\* log text that begins with the text stored before, as every write to the
\* log should; so the line a cancel appended while the pipeline ran is
\* still there afterwards.
C20_LogsAppendOnly ==
  [][\A d \in 1..Len(deployments) :
       (tasks[d].pc = "building" /\ tasks'[d].pc = "done")
         => LET old == deployments[d].logs
                new == deployments'[d].logs
            IN  Len(old) <= Len(new) /\ SubSeq(new, 1, Len(old)) = old]_vars

\* ------------------------------------------------------- cache and cleanup
\* C21: a resolution that finds a deployment stores its URL with the expiry
\* five minutes ahead and answers with it before anything is proxied; a
\* resolution answers from the cache only while the entry's expiry lies
\* ahead, and then with the URL a lookup found authoritative less than one
\* TTL earlier; with an entry whose expiry has passed, the lookup is made
\* again.
C21_CacheWithinTtl ==
  resolution.appName # NULL
    => /\ resolution.fromCache <=> (resolution.cached # NoEntry /\ resolution.cached.expires > resolution.at)
       /\ resolution.fromCache =>
            /\ resolution.url = cacheOrigin[resolution.appName].url
            /\ resolution.at - cacheOrigin[resolution.appName].at < CACHE_TTL
            /\ resolution.at - cacheOrigin[resolution.appName].at >= 0
       /\ ~resolution.fromCache =>
            IF resolution.authoritative = {} THEN resolution.url = NULL
            ELSE /\ resolution.url \in resolution.authoritative
                 /\ deploymentUrlCache[resolution.appName] =
                      [url |-> resolution.url, expires |-> resolution.at + CACHE_TTL]

\* a resolution that met an entry expired at this very instant, while a
\* later deployment had made another URL authoritative, and answered with
\* the new URL
C21_Witness ==
  /\ resolution.appName = "app1"
  /\ ~resolution.fromCache
  /\ resolution.cached # NoEntry
  /\ resolution.cached.expires = resolution.at
  /\ resolution.url # resolution.cached.url
  /\ resolution.url # NULL

\* C22: every cache entry whose expiry has passed is eventually removed from
\* the cache, whether or not its app is requested again.
C22_ExpiredEntriesSwept ==
  \A appName \in RepoNames :
    [](( /\ deploymentUrlCache[appName] # NoEntry
         /\ deploymentUrlCache[appName].expires <= now )
       => <>(deploymentUrlCache[appName] = NoEntry))

\* ------------------------------------------------------------- the engine
\* C23: a call of deploy() that has built a local image and returns has
\* tried to remove that image, whether the provider step succeeded, failed
\* or was given a provider the engine does not know.
C23_BuiltImageRemoved ==
  (engine.called /\ engine.result.built /\ ~engine.result.threw) => engine.result.removed

\* C25: what deploy() reports when a notification fails is what it reports
\* when the notification succeeds: it returns in both cases, with the same
\* success flag, URL, custom domain and error, and the logs differ by the
\* one line that records the failure.
C25_NotificationContained ==
  engine.called
    => LET r == engine.result
           q == deploy(engine.o, [engine.w EXCEPT !.notifyThrows = FALSE])
       IN  /\ r.threw = q.threw
           /\ r.success = q.success
           /\ r.url = q.url
           /\ r.customDomain = q.customDomain
           /\ r.error = q.error
           /\ r.logs \in {q.logs, q.logs \o <<"Notification failed">>}

\* a deployment to railway that succeeded with a URL and a custom domain
\* while the notification raised: the result is a success whose last log
\* line records the failed notification
C25_Witness ==
  /\ engine.called
  /\ engine.w.notifyThrows
  /\ engine.result.success
  /\ engine.result.url # NULL
  /\ engine.result.customDomain # NULL
  /\ engine.result.logs[Len(engine.result.logs)] = "Notification failed"

\* C26: the app name deploy() puts into the adapter's options consists of
\* lower-case letters, digits and hyphens, has no two hyphens in a row and
\* no hyphen at its start or end, and is at most 63 characters long,
\* whether it comes from the caller's option, the manifest or the default.
C26_HandedNameNormalized ==
  named.called
    => LET n == named.appName
       IN  /\ Len(n) <= 63
           /\ \A i \in 1..Len(n) : allowedChar(n[i])
           /\ \A i \in 1..(Len(n) - 1) : ~(n[i] = "-" /\ n[i + 1] = "-")
           /\ Len(n) > 0 => (n[1] # "-" /\ n[Len(n)] # "-")

C27_RetriedRecordFinishes ==
  \A d \in 1..MaxDeployments :
    []((d \in 1..Len(deployments) /\ tasks[d].kind = "none")
         => <>(/\ d \in 1..Len(deployments)
               /\ deployments[d].status \in {"success", "failed"}))

\* C28: a record inserted by the post-receive hook eventually has the
\* status success or failed.
C28_HookRecordFinishes ==
  \A d \in 1..MaxDeployments :
    []((d \in 1..Len(deployments) /\ tasks[d].kind = "hook")
         => <>(/\ d \in 1..Len(deployments)
               /\ deployments[d].status \in {"success", "failed"}))

\* ---------------------------------------------------------- plan limits
\* C29: no agent (all are on the free plan) has more than ten deployment
\* records of the current month attributed to it.
C29_MonthlyLimitKept ==
  \A agentId \in Agents :
    countMonthlyDeployments(deployments, agentId) <= maxDeploymentsPerMonth

\* ------------------------------------------------------------ runner login
\* C30: a verified auth webhook that is answered 500 leaves pendingLogins as
\* it was, whichever call of the Nango API failed.
C30_FailedWebhookStoresNothing ==
  [][\A connectionId \in ConnectionIds, endUserId \in {NULL, "user-7"},
       nango \in {"ok", "user-fails", "update-fails"} :
      (/\ NangoWebhook([signature |-> "hmac-of-body", hmac |-> NULL], "accepts", "auth",
                       connectionId, NANGO_INTEGRATION, endUserId, nango)
       /\ hooked'.status = 500)
        => pendingLogins' = pendingLogins]_vars

====
